---------------------------- MODULE Spec2Model ----------------------------
(***************************************************************************)
(* A model of the bet settlement module (src/settle_bets.py).              *)
(*                                                                         *)
(* Representation.                                                         *)
(*   - Text is a sequence of one-character strings, so that strip(),       *)
(*     lower() and the substring test of the code are computed, not        *)
(*     assumed.                                                            *)
(*   - A value that may be missing is a record [kind, val]: kind is "num"  *)
(*     (val an integer), "nan", "inf" or "none" for numbers, and "text"    *)
(*     or "none" for text.                                                 *)
(*   - A handicap line is counted in quarters of a goal (line -0.25 is     *)
(*     -1), odds in hundredths (1.90 is 190), a stake in whole units and a *)
(*     profit in 1/200 of a unit, so that every value the code computes    *)
(*     for these inputs is an integer: stake*(odds-1) is                   *)
(*     2*(odds*stake - 100*stake) and stake/2 is 100*stake.                *)
(***************************************************************************)
EXTENDS Integers, Sequences, FiniteSets, TLC

VARIABLES
    now,                \* the store's clock, NOW()
    bets,               \* the committed rows of table bets, by bet_id
    pc,                 \* position of the settlement run
    hours_buffer,       \* the run's hours_buffer argument
    rows,               \* cur.fetchall(): the selected rows, in order
    txn_now,            \* NOW() of the run's transaction
    league_to_matches,  \* league name -> league_df (a sequence of rows)
    fetch_failed,       \* the leagues whose fetch failed in this run
    idx,                \* number of rows of open_df already processed
    row_log,            \* per processed row: match_row used and what happened
    txn,                \* the transaction: its state and uncommitted writes
    settled,            \* the run's counter of executed updates
    exit,               \* how the last run ended
    call                \* the last direct call of a pure function

vars == <<now, bets, pc, hours_buffer, rows, txn_now, league_to_matches,
          fetch_failed, idx, row_log, txn, settled, exit, call>>

runVars == <<pc, hours_buffer, rows, txn_now, league_to_matches,
             fetch_failed, idx, row_log, txn, settled, exit>>

-----------------------------------------------------------------------------
(* Values *)

Num(n) == [kind |-> "num", val |-> n]

NaN == [kind |-> "nan", val |-> 0]

Inf == [kind |-> "inf", val |-> 0]

None == [kind |-> "none", val |-> 0]

Text(s) == [kind |-> "text", val |-> s]

NoText == [kind |-> "none", val |-> <<>>]

\* pd.isna(x): None and NaN are missing, a number and an infinity are not
IsNa(x) == x.kind \in {"nan", "none"}

\* COALESCE(a, b) of the select
Coalesce(a, b) == IF a.kind = "none" THEN b ELSE a

-----------------------------------------------------------------------------
(* Text *)

LowerChar(c) ==
    CASE c = "A" -> "a" [] c = "B" -> "b" [] c = "C" -> "c" [] c = "D" -> "d"
      [] c = "E" -> "e" [] c = "H" -> "h" [] c = "M" -> "m" [] c = "O" -> "o"
      [] c = "S" -> "s" [] c = "W" -> "w" [] c = "Y" -> "y"
      [] OTHER -> c

\* str.lower()
Lower(s) == [i \in 1..Len(s) |-> LowerChar(s[i])]

RECURSIVE LStrip(_)
LStrip(s) == IF s # <<>> /\ Head(s) = " " THEN LStrip(Tail(s)) ELSE s

RECURSIVE RStrip(_)
RStrip(s) ==
    IF s # <<>> /\ s[Len(s)] = " " THEN RStrip(SubSeq(s, 1, Len(s) - 1)) ELSE s

\* str.strip()
Strip(s) == RStrip(LStrip(s))

\* sub in s
Contains(s, sub) ==
    \E i \in 0..(Len(s) - Len(sub)) : SubSeq(s, i + 1, i + Len(sub)) = sub

\* str(x or ""): None and the empty text both give ""
StrOrEmpty(x) == IF x.kind = "none" THEN <<>> ELSE x.val

\* _normalize_team_name(name)
_normalize_team_name(name) == Lower(Strip(StrOrEmpty(name)))

\* Series.astype(str).str.strip().str.lower() of one cell; astype(str) turns a
\* missing name into the text "none"
SeriesNorm(x) ==
    IF x.kind = "none" THEN <<"n", "o", "n", "e">> ELSE Lower(Strip(x.val))

-----------------------------------------------------------------------------
(* resolve_ah_bet_profit *)

Home == <<"h", "o", "m", "e">>

Away == <<"a", "w", "a", "y">>

\* resolve_ah_bet_profit with the away margin not negated
ResolveAwayNotNegated(home_goals, away_goals, line, side_betted, odds, stake) ==
    IF IsNa(home_goals) \/ IsNa(away_goals) \/ IsNa(line) \/ IsNa(odds)
       \/ odds.val <= 0
    THEN 0
    ELSE LET margin == 4 * (home_goals.val - away_goals.val)
             eff    == margin + line.val
             win    == 2 * (odds.val * stake - 100 * stake)
         IN  IF side_betted \notin {Home, Away} THEN 0
             ELSE IF eff > 1 THEN win
             ELSE IF eff = 1 THEN win \div 2
             ELSE IF eff = 0 THEN 0
             ELSE IF eff = -1 THEN -(100 * stake)
             ELSE -(200 * stake)

\* resolve_ah_bet_profit(home_goals, away_goals, line_betted_on_team,
\* side_betted, odds, stake): goals, line and odds are tagged values, stake an
\* integer, side_betted a text or NoSide; the result is in 1/200 of a unit
resolve_ah_bet_profit(home_goals, away_goals, line, side_betted, odds, stake) ==
    IF IsNa(home_goals) \/ IsNa(away_goals) \/ IsNa(line) \/ IsNa(odds)
       \/ odds.val <= 0
    THEN 0
    ELSE LET margin == 4 * (home_goals.val - away_goals.val)
             win    == 2 * (odds.val * stake - 100 * stake)
         IN  IF side_betted \notin {Home, Away} THEN 0
             ELSE LET eff == IF side_betted = Home
                             THEN margin + line.val
                             ELSE (-margin) + line.val
                  IN  IF eff > 1 THEN win
                      ELSE IF eff = 1 THEN win \div 2
                      ELSE IF eff = 0 THEN 0
                      ELSE IF eff = -1 THEN -(100 * stake)
                      ELSE -(200 * stake)

-----------------------------------------------------------------------------
(* Bounds *)

NumBets == 2

MaxTime == 5

MaxGoals == 2

\* handicap lines run from -MaxLineQ/4 to +MaxLineQ/4
MaxLineQ == 6

MaxStake == 2

-----------------------------------------------------------------------------
(* The table bets *)

BetIds == 1..NumBets

\* the clock when the model starts: one Tick before MaxTime
StartTime == MaxTime - 1

T_ab == <<"a", "b">>

T_cd == <<"c", "d">>

T_ce == <<"c", "e">>

L_E1 == <<"E", "1">>

L_S2 == <<"S", "2">>

\* The rows a bet of the table may hold when the model starts (every column
\* but bet_id).  Open and unset wagers have no pl and no settled_at.
BetCatalog ==
    { \* an open home wager at -0.25, refined odds 1.90, stake 2
      [dt_gmt8 |-> 1, league |-> Text(L_E1),
       home |-> Text(<<" ", "A", "b">>), away |-> Text(<<"C", "D", " ">>),
       line_betted_on_refined |-> None, line |-> Num(-1),
       odds_betted_on_refined |-> Num(190), odds |-> Num(180),
       stake |-> Num(2),
       bet_type_refined_ah |-> Text(<<"H", "o", "m", "e">>), side |-> NoText,
       status |-> "open", pl |-> None, settled_at |-> None],
      \* a wager with status unset, away at +0.5, odds 2.00, stake unset,
      \* kicking off later
      [dt_gmt8 |-> 2, league |-> Text(L_E1),
       home |-> Text(T_ab), away |-> Text(T_cd),
       line_betted_on_refined |-> Num(2), line |-> Num(0),
       odds_betted_on_refined |-> None, odds |-> Num(200),
       stake |-> None,
       bet_type_refined_ah |-> NoText, side |-> Text(<<"A", "W", "A", "Y">>),
       status |-> "NULL", pl |-> None, settled_at |-> None],
      \* an open home wager of the other league at +0.25
      [dt_gmt8 |-> 1, league |-> Text(L_S2),
       home |-> Text(<<"C", "d">>), away |-> Text(<<"a", "B">>),
       line_betted_on_refined |-> Num(1), line |-> None,
       odds_betted_on_refined |-> Num(150), odds |-> None,
       stake |-> Num(1),
       bet_type_refined_ah |-> Text(<<"h", "o", "m", "e">>), side |-> NoText,
       status |-> "open", pl |-> None, settled_at |-> None],
      \* a wager settled before the model starts
      [dt_gmt8 |-> 0, league |-> Text(L_E1),
       home |-> Text(T_ab), away |-> Text(T_cd),
       line_betted_on_refined |-> Num(0), line |-> Num(0),
       odds_betted_on_refined |-> Num(190), odds |-> Num(190),
       stake |-> Num(1),
       bet_type_refined_ah |-> Text(Home), side |-> NoText,
       status |-> "settled", pl |-> Num(180), settled_at |-> Num(0)],
      \* an open wager whose side names neither team, at odds 0
      [dt_gmt8 |-> 1, league |-> Text(L_S2),
       home |-> Text(T_cd), away |-> Text(T_ab),
       line_betted_on_refined |-> None, line |-> NaN,
       odds_betted_on_refined |-> None, odds |-> Num(0),
       stake |-> Num(1),
       bet_type_refined_ah |-> NoText, side |-> Text(<<"d", "r", "a", "w">>),
       status |-> "open", pl |-> None, settled_at |-> None],
      \* an open away wager with no line recorded
      [dt_gmt8 |-> 0, league |-> Text(L_E1),
       home |-> Text(T_ab), away |-> Text(T_cd),
       line_betted_on_refined |-> None, line |-> None,
       odds_betted_on_refined |-> None, odds |-> Num(210),
       stake |-> Num(1),
       bet_type_refined_ah |-> Text(<<"A", "H", " ", "a", "w", "a", "y">>), side |-> NoText,
       status |-> "open", pl |-> None, settled_at |-> None] }

\* status IS NULL OR status = 'open'
IsOpen(b) == b.status \in {"NULL", "open"}

\* the WHERE clause of the select without the status condition
SelectWhereAnyStatus(b, t, hb) == b.dt_gmt8 < t - hb

\* the WHERE clause of the select without the buffer
SelectWhereNoBuffer(b, t, hb) == IsOpen(b) /\ b.dt_gmt8 < t

\* the WHERE clause of the select at time t with buffer hb
SelectWhere(b, t, hb) == IsOpen(b) /\ b.dt_gmt8 < t - hb

\* the columns the select computes for a row
line_val(b) == Coalesce(b.line_betted_on_refined, b.line)

odds_val(b) == Coalesce(b.odds_betted_on_refined, b.odds)

stake_val(b) == Coalesce(b.stake, Num(1))

side_val(b) == Coalesce(b.bet_type_refined_ah, b.side)

\* ORDER BY dt_gmt8 ASC: the orders the select may return the ids S in
\* (rows with equal kickoff times come in either order)
RECURSIVE OrderedBy(_, _)
OrderedBy(S, tbl) ==
    IF S = {} THEN { <<>> }
    ELSE UNION { { <<k>> \o rest : rest \in OrderedBy(S \ {k}, tbl) } :
                 k \in { j \in S : \A o \in S : tbl[j].dt_gmt8 <= tbl[o].dt_gmt8 } }

-----------------------------------------------------------------------------
(* The upstream provider *)

NaT == [kind |-> "nat", val |-> 0]

\* data['data'] of a good league-list response: each league with its seasons.
\* The provider writes league names its own way.
LeagueListData ==
    << [name |-> Text(<<"e", "1", " ">>),
        season |-> << [id |-> 11, year |-> 1], [id |-> 12, year |-> 2] >>],
       [name |-> Text(<<" ", "S", "2">>),
        season |-> << [id |-> 21, year |-> 2] >>] >>

\* the rows of df_exploded of the league: one row per season of each league
\* whose processed name equals the processed league_name_to_match
RECURSIVE SeasonsOf(_, _)
SeasonsOf(data, league_name) ==
    IF data = <<>> THEN <<>>
    ELSE (IF SeriesNorm(Head(data).name) = Lower(Strip(league_name))
          THEN Head(data).season ELSE <<>>)
         \o SeasonsOf(Tail(data), league_name)

\* sort_values('year', ascending=False)
RECURSIVE SortByYearDesc(_)
SortByYearDesc(seasons) ==
    IF seasons = <<>> THEN <<>>
    ELSE LET i == CHOOSE j \in 1..Len(seasons) :
                      /\ \A o \in 1..Len(seasons) : seasons[j].year >= seasons[o].year
                      /\ \A o \in 1..(j - 1) : seasons[o].year < seasons[j].year
         IN  <<seasons[i]>>
             \o SortByYearDesc(SubSeq(seasons, 1, i - 1)
                               \o SubSeq(seasons, i + 1, Len(seasons)))

\* DataFrame.head(n)
HeadN(seq, n) == SubSeq(seq, 1, IF n < Len(seq) THEN n ELSE Len(seq))

\* the kinds of answer of the league-list call: a transport error, a body
\* that is no JSON, a body without 'data', a body whose 'data' is not what
\* json_normalize expects (an exception other than the two caught), a good one
LeagueListAnswers == {"request_error", "value_error", "no_data", "raises", "ok"}

\* get_season_ids_for_league(api_key, league_name_to_match, past_seasons) on an
\* answer that does not raise: the ids of the most recent seasons
get_season_ids_for_league(answer, league_name, past_seasons) ==
    IF answer # "ok" THEN <<>>
    ELSE LET season_df == SortByYearDesc(SeasonsOf(LeagueListData, league_name))
             kept      == HeadN(season_df, past_seasons)
         IN  [i \in 1..Len(kept) |-> kept[i].id]

\* A match row of the provider's own schema
MatchA(h, a, hg, ag, t) ==
    [home_name |-> Text(h), away_name |-> Text(a),
     homeGoalCount |-> hg, awayGoalCount |-> ag, date_unix |-> Num(t)]

\* A match row of another schema the code unifies
MatchB(h, a, hg, ag, t) ==
    [homeTeam |-> Text(h), awayTeam |-> Text(a),
     home_goals |-> hg, away_goals |-> ag, date |-> Num(t)]

\* data['data'] of the good answers the league-matches call may give for a
\* season
MatchFrames(season_id) ==
    CASE season_id = 12 ->
            { \* the fixture is played twice; the later one is listed first
              << MatchA(<<"A", "b">>, <<"C", "d">>, Num(2), Num(0), 9),
                 MatchA(<<"A", "B", " ">>, <<"c", "d">>, Num(0), Num(1), 1) >>,
              \* the re-fixture, not played yet, is listed first
              << MatchA(T_ab, T_cd, NaN, None, 9),
                 MatchA(T_ab, T_cd, Num(1), Num(1), 1) >>,
              \* the reverse fixture and a fixture against another team
              << MatchA(T_cd, T_ab, Num(1), Num(0), 1),
                 MatchA(T_ab, T_ce, Num(2), Num(1), 1) >>,
              \* the other schema
              << MatchB(<<"a", "b", " ">>, <<" ", "C", "D">>, Num(MaxGoals), Num(0), 2) >> }
      [] season_id = 21 ->
            { << MatchA(T_ab, T_cd, Num(0), Num(0), 1),
                 MatchA(T_cd, T_ab, Num(1), Num(1), 1) >>,
              << MatchA(T_cd, T_ab, Num(1), Inf, 1) >> }
      [] OTHER ->
            { << MatchA(T_ab, T_cd, Num(MaxGoals), Num(MaxGoals), 0) >> }

\* What the league-matches call may answer for a season: a transport error,
\* a body that is no JSON, a body without data, or rows
MatchAnswers(season_id) ==
    { [kind |-> k, data |-> <<>>] : k \in {"request_error", "value_error", "no_data"} }
    \cup { [kind |-> "ok", data |-> f] : f \in MatchFrames(season_id) }

\* get_league_match_data(api_key, season_id, league_name): the frame of the
\* answer; pd.DataFrame() for an error or for no data
get_league_match_data(answer) == IF answer.kind = "ok" THEN answer.data ELSE <<>>

-----------------------------------------------------------------------------
(* Normalizing a league's frame *)

Columns(df) == IF df = <<>> THEN {} ELSE DOMAIN df[1]

NameCols == <<"home_name", "away_name", "homeTeam", "awayTeam", "home", "away">>

NormCols == <<"home_name_norm", "away_name_norm", "homeTeam_norm",
              "awayTeam_norm", "home_norm", "away_norm">>

\* league_df[col + '_norm'] for each name column the frame has
WithNormCols(row) ==
    LET present == { i \in 1..Len(NameCols) : NameCols[i] \in DOMAIN row }
    IN  [n \in { NormCols[i] : i \in present } |->
            SeriesNorm(row[NameCols[CHOOSE i \in present : NormCols[i] = n]])] @@ row

\* pd.to_numeric(x, errors='coerce')
to_numeric(x) == IF x.kind \in {"num", "inf"} THEN x ELSE NaN

\* homeGoalCount / awayGoalCount from home_goals / away_goals when absent
WithGoalCols(row) ==
    LET h == IF "homeGoalCount" \notin DOMAIN row /\ "home_goals" \in DOMAIN row
             THEN [homeGoalCount |-> to_numeric(row.home_goals)] @@ row ELSE row
    IN  IF "awayGoalCount" \notin DOMAIN h /\ "away_goals" \in DOMAIN h
        THEN [awayGoalCount |-> to_numeric(h.away_goals)] @@ h ELSE h

DtCols == <<"datetime_gmt8", "date_unix", "date">>

\* pd.to_datetime(x, errors='coerce', utc=True) of one value
to_datetime(x) == IF x.kind = "num" THEN x ELSE NaT

\* Series.tz_localize(None) localizes the INDEX of the Series, not its values
\* (that is Series.dt.tz_localize); it raises TypeError unless the index is a
\* DatetimeIndex or a PeriodIndex
SeriesTzLocalizeRaises(index_kind) == index_kind \notin {"DatetimeIndex", "PeriodIndex"}

\* the index of league_df: pd.concat(..., ignore_index=True) gives a RangeIndex
LeagueDfIndex == "RangeIndex"

\* league_df['dt']: the try of lines 221-224
WithDtCol(row) ==
    LET found == { i \in 1..Len(DtCols) : DtCols[i] \in DOMAIN row }
    IN  IF found = {} THEN row
        ELSE LET dt_col == DtCols[CHOOSE i \in found : \A j \in found : i <= j]
             IN  IF SeriesTzLocalizeRaises(LeagueDfIndex)
                 THEN [dt |-> NaT] @@ row
                 ELSE [dt |-> to_datetime(row[dt_col])] @@ row

\* lines 201-224: the frame with names, goals and timestamps unified
NormalizeLeagueDf(df) == [i \in 1..Len(df) |-> WithDtCol(WithGoalCols(WithNormCols(df[i])))]

-----------------------------------------------------------------------------
(* Matching a wager to a match row: lines 259-282 *)

HomeNormCols(df) ==
    SelectSeq(<<"home_name_norm", "homeTeam_norm", "home_norm">>,
              LAMBDA c : c \in Columns(df))

AwayNormCols(df) ==
    SelectSeq(<<"away_name_norm", "awayTeam_norm", "away_norm">>,
              LAMBDA c : c \in Columns(df))

\* the mask comparing the home name only
MaskHomeOnly(df, hc, ac, home, away) == { i \in 1..Len(df) : df[i][hc] = home }

\* mask = (candidates[hc] == home) & (candidates[ac] == away): the rows it keeps
Mask(df, hc, ac, home, away) ==
    { i \in 1..Len(df) : df[i][hc] = home /\ df[i][ac] = away }

\* sub['abs_dt_diff'] of a row
AbsDtDiff(row, dt_bet) ==
    IF row.dt.kind = "nat" THEN NaT
    ELSE Num(IF row.dt.val >= dt_bet.val THEN row.dt.val - dt_bet.val
             ELSE dt_bet.val - row.dt.val)

\* sub.sort_values('abs_dt_diff').iloc[0] over the rows S of df: ascending,
\* missing values last, rows with equal keys in frame order
FirstByAbsDtDiff(df, S, dt_bet) ==
    CHOOSE i \in S : \A j \in S \ {i} :
        LET ki == AbsDtDiff(df[i], dt_bet)
            kj == AbsDtDiff(df[j], dt_bet)
        IN  IF ki.kind = "nat" THEN kj.kind = "nat" /\ i < j
            ELSE kj.kind = "nat" \/ ki.val < kj.val \/ (ki.val = kj.val /\ i < j)

\* sub.iloc[0] without the sort
FirstInFrame(S) == CHOOSE i \in S : \A j \in S : i <= j

\* The index in df of match_row for a wager, 0 when match_found stays False
MatchRow(df, home, away, dt_bet) ==
    LET hcs   == HomeNormCols(df)
        acs   == AwayNormCols(df)
        pairs == [k \in 1..(Len(hcs) * Len(acs)) |->
                    <<hcs[((k - 1) \div Len(acs)) + 1], acs[((k - 1) % Len(acs)) + 1]>>]
        hits  == { k \in DOMAIN pairs :
                     Mask(df, pairs[k][1], pairs[k][2], home, away) # {} }
    IN  IF hits = {} THEN 0
        ELSE LET k   == CHOOSE h \in hits : \A o \in hits : h <= o
                 sub == Mask(df, pairs[k][1], pairs[k][2], home, away)
             IN  IF "dt" \in Columns(df) /\ dt_bet.kind # "nat"
                 THEN FirstByAbsDtDiff(df, sub, dt_bet)
                 ELSE FirstInFrame(sub)

-----------------------------------------------------------------------------
(* One row of open_df: lines 237-303 *)

NoSide == <<>>

\* side = 'home' if 'home' in side_raw else ('away' if 'away' in side_raw else None)
SideOf(b) ==
    LET side_raw == Lower(StrOrEmpty(side_val(b)))
    IN  IF Contains(side_raw, Home) THEN Home
        ELSE IF Contains(side_raw, Away) THEN Away ELSE NoSide

\* match_row.get(col, np.nan)
RowGet(row, col) == IF col \in DOMAIN row THEN row[col] ELSE NaN

\* float(x) raises TypeError on None
FloatRaises(x) == x.kind = "none"

\* a test for None in place of np.isfinite
IsNotNone(x) == x.kind # "none"

\* np.isfinite(x)
IsFinite(x) == x.kind = "num"

\* What the loop body does for wager b, given the frames fetched so far:
\*   "skip"   a continue (lines 252-253, 256-257, 281-282, 287-288),
\*   "raise"  an exception of the try before cur.execute (a float() of None),
\*   "update" cur.execute of the UPDATE with profit pl;
\* m is the index of match_row in the league's frame (0: none).
RowPlan(b, l2m) ==
    LET side == SideOf(b)
    IN  IF b.league.kind = "none" \/ b.league.val \notin DOMAIN l2m \/ side = NoSide
        THEN [act |-> "skip", m |-> 0, pl |-> 0]
        ELSE LET league_df == l2m[b.league.val]
                 m == MatchRow(league_df, _normalize_team_name(b.home),
                               _normalize_team_name(b.away), to_datetime(Num(b.dt_gmt8)))
             IN  IF league_df = <<>> \/ m = 0
                 THEN [act |-> "skip", m |-> 0, pl |-> 0]
                 ELSE LET hg == RowGet(league_df[m], "homeGoalCount")
                          ag == RowGet(league_df[m], "awayGoalCount")
                      IN  IF FloatRaises(hg) \/ FloatRaises(ag)
                          THEN [act |-> "raise", m |-> m, pl |-> 0]
                          ELSE IF ~IsFinite(hg) \/ ~IsFinite(ag)
                          THEN [act |-> "skip", m |-> m, pl |-> 0]
                          ELSE IF FloatRaises(line_val(b)) \/ FloatRaises(odds_val(b))
                          THEN [act |-> "raise", m |-> m, pl |-> 0]
                          ELSE [act |-> "update", m |-> m,
                                pl |-> resolve_ah_bet_profit(hg, ag, line_val(b), side,
                                                             odds_val(b), stake_val(b).val)]

-----------------------------------------------------------------------------
(* The run: settle_open_bets *)

HoursBufferDefault == 2

\* the values of hours_buffer the runs are started with
HoursBuffers == {1, HoursBufferDefault}

\* the characters of the model in code point order
Ascii == <<" ", "1", "2", "A", "B", "C", "D", "E", "H", "M", "O", "S", "W", "Y",
           "a", "b", "c", "d", "e", "h", "m", "n", "o", "s", "w", "y">>

Code(c) == CHOOSE i \in 1..Len(Ascii) : Ascii[i] = c

\* s < t for two texts, as sorted() compares str
RECURSIVE TextLess(_, _)
TextLess(s, t) ==
    IF t = <<>> THEN FALSE
    ELSE IF s = <<>> THEN TRUE
    ELSE IF Head(s) # Head(t) THEN Code(Head(s)) < Code(Head(t))
    ELSE TextLess(Tail(s), Tail(t))

\* open_df['league'].dropna().unique()
LeaguesOf(rws, tbl) ==
    { tbl[rws[i]].league.val : i \in { j \in 1..Len(rws) : tbl[rws[j]].league.kind # "none" } }

\* the league the fetch loop is at: the first of sorted(unique_leagues) that
\* has no entry in league_to_matches yet
NextLeague(rws, tbl, l2m) ==
    LET left == LeaguesOf(rws, tbl) \ DOMAIN l2m
    IN  CHOOSE l \in left : \A o \in left \ {l} : TextLess(l, o)

\* every way the fetches of the season ids may go: the frames concatenated
\* and whether some call failed
RECURSIVE FetchAll(_)
FetchAll(season_ids) ==
    IF season_ids = <<>> THEN { [df |-> <<>>, failed |-> FALSE] }
    ELSE { [df |-> get_league_match_data(a) \o r.df,
            failed |-> (a.kind # "ok") \/ r.failed] :
           a \in MatchAnswers(Head(season_ids)), r \in FetchAll(Tail(season_ids)) }

NoTxn == [state |-> "none", writes |-> {}]

\* the run's variables before a run
ResetRun ==
    /\ rows' = <<>>
    /\ league_to_matches' = <<>>
    /\ fetch_failed' = {}
    /\ idx' = 0
    /\ row_log' = <<>>
    /\ settled' = 0

Idle == pc \in {"idle", "done"}

\* lines 142-147: no DATABASE_URL or no FOOTYSTATS_API_KEY
Skipped ==
    /\ Idle
    /\ \E hb \in HoursBuffers : hours_buffer' = hb
    /\ ResetRun
    /\ txn' = NoTxn /\ txn_now' = txn_now
    /\ pc' = "done" /\ exit' = "skipped"
    /\ UNCHANGED <<now, bets, call>>

\* psycopg2.connect or the select raises: the except of lines 309-310
StoreUnreachable ==
    /\ Idle
    /\ \E hb \in HoursBuffers : hours_buffer' = hb
    /\ ResetRun
    /\ txn' = NoTxn /\ txn_now' = txn_now
    /\ pc' = "done" /\ exit' = "error"
    /\ UNCHANGED <<now, bets, call>>

\* lines 150-181: connect, select, fetchall.  NOW() is the start time of the
\* transaction the select opens, for the select and for every later update.
SelectRows ==
    /\ Idle
    /\ \E hb \in HoursBuffers :
         /\ hours_buffer' = hb
         /\ \E rws \in OrderedBy({ i \in BetIds : SelectWhere(bets[i], now, hb) }, bets) :
              /\ rows' = rws
              /\ IF rws = <<>>
                 THEN pc' = "done" /\ exit' = "no_rows" /\ txn' = NoTxn
                 ELSE /\ exit' = "running"
                      /\ txn' = [state |-> "open", writes |-> {}]
                      /\ pc' = IF LeaguesOf(rws, bets) = {} THEN "bets" ELSE "fetch"
    /\ txn_now' = now
    /\ league_to_matches' = <<>>
    /\ fetch_failed' = {}
    /\ idx' = 0
    /\ row_log' = <<>>
    /\ settled' = 0
    /\ UNCHANGED <<now, bets, call>>

\* the entry of league_to_matches after the except of lines 229-231
FrameAfterException(df) == <<>>

\* a failed fetch emptying the whole cache
StoreFrameWipeOnFailure(l2m, league, league_df, failed) ==
    IF failed THEN [l \in DOMAIN l2m \cup {league} |-> <<>>]
    ELSE (league :> league_df) @@ l2m

\* league_to_matches[league_name] = league_df (lines 226 and 231)
StoreFrame(l2m, league, league_df, failed) == (league :> league_df) @@ l2m

\* lines 188-231 for one league
FetchLeague ==
    /\ pc = "fetch"
    /\ LET league == NextLeague(rows, bets, league_to_matches)
       IN  \E la \in LeagueListAnswers :
             \E r \in FetchAll(get_season_ids_for_league(la, league, 1)) :
               LET league_df == IF la = "raises" THEN FrameAfterException(r.df)
                                ELSE NormalizeLeagueDf(r.df)
                   failed    == la # "ok" \/ r.failed
               IN  /\ league_to_matches' =
                        StoreFrame(league_to_matches, league, league_df, failed)
                   /\ fetch_failed' = IF failed THEN fetch_failed \cup {league}
                                      ELSE fetch_failed
                   /\ pc' = IF LeaguesOf(rows, bets) \subseteq DOMAIN league_to_matches'
                            THEN "bets" ELSE "fetch"
    /\ UNCHANGED <<now, bets, hours_buffer, rows, txn_now, idx, row_log, txn,
                   settled, exit, call>>

\* What cur.execute of the UPDATE may do in transaction state st: succeed,
\* fail with an error of the store (the store then aborts the transaction:
\* every later statement fails and COMMIT rolls back), or lose the connection
ExecuteOutcomes(st) == IF st = "open" THEN {"ok", "error", "lost"} ELSE {"raises"}

\* the state of the transaction after cur.execute
TxnAfterExecute(t, bet_id, pl, outcome) ==
    CASE outcome = "ok"    -> [t EXCEPT !.writes = @ \cup {[bet_id |-> bet_id, pl |-> pl]}]
      [] outcome = "error" -> [t EXCEPT !.state = "failed"]
      [] outcome = "lost"  -> [t EXCEPT !.state = "lost"]
      [] OTHER             -> t

\* an exception of the loop body reaching the except of lines 309-310
AfterRowUncaught(result, done, total) ==
    IF result \in {"raise", "error", "lost", "raises"} THEN "done"
    ELSE IF done = total THEN "commit" ELSE "bets"

\* where the run is after a row that ended with result: the except of lines
\* 302-303 swallows every exception of the body and the loop goes on
AfterRow(result, done, total) == IF done = total THEN "commit" ELSE "bets"

\* lines 237-303 for one row of open_df
ProcessBet ==
    /\ pc = "bets"
    /\ LET b    == bets[rows[idx + 1]]
           plan == RowPlan(b, league_to_matches)
       IN  \E o \in (IF plan.act = "update" THEN ExecuteOutcomes(txn.state)
                     ELSE {plan.act}) :
             /\ row_log' = Append(row_log, [m |-> plan.m, result |-> o])
             /\ txn' = IF plan.act = "update"
                       THEN TxnAfterExecute(txn, rows[idx + 1], plan.pl, o) ELSE txn
             /\ settled' = IF o = "ok" THEN settled + 1 ELSE settled
             /\ pc' = AfterRow(o, idx + 1, Len(rows))
    /\ idx' = idx + 1
    /\ UNCHANGED <<now, bets, hours_buffer, rows, txn_now, league_to_matches,
                   fetch_failed, exit, call>>

\* UPDATE bets SET pl = %s, status = 'settled', settled_at = NOW() WHERE bet_id = %s
ApplyUpdate(b, pl, t) ==
    [b EXCEPT !.pl = Num(pl), !.status = "settled", !.settled_at = Num(t)]

\* the table after COMMIT of transaction t: its writes when the transaction
\* is intact, nothing when a statement failed in it
Committed(tbl, t, t_now) ==
    IF t.state # "open" THEN tbl
    ELSE [i \in DOMAIN tbl |->
            IF \E w \in t.writes : w.bet_id = i
            THEN ApplyUpdate(tbl[i], (CHOOSE w \in t.writes : w.bet_id = i).pl, t_now)
            ELSE tbl[i]]

\* line 305 returns: the transaction ends (COMMIT, or ROLLBACK after a failed
\* statement, which psycopg2 does not report)
Commit ==
    /\ pc = "commit"
    /\ txn.state \in {"open", "failed"}
    /\ bets' = Committed(bets, txn, txn_now)
    /\ pc' = "done" /\ exit' = "ok"
    /\ UNCHANGED <<now, hours_buffer, rows, txn_now, league_to_matches, fetch_failed,
                   idx, row_log, txn, settled, call>>

\* line 305 raises, the connection being lost: the except of lines 309-310
CommitRaises ==
    /\ pc = "commit"
    /\ pc' = "done" /\ exit' = "error"
    /\ txn' = [txn EXCEPT !.state = "lost"]
    /\ UNCHANGED <<now, bets, hours_buffer, rows, txn_now, league_to_matches,
                   fetch_failed, idx, row_log, settled, call>>

\* time passes between two runs
Tick ==
    /\ Idle
    /\ now < MaxTime
    /\ now' = now + 1
    /\ UNCHANGED <<bets, call>>
    /\ UNCHANGED runVars

\* no direct call of a function yet
NoCall == [fn |-> "none", args |-> <<>>, result |-> 0]

Init ==
    /\ now = StartTime
    /\ bets \in [BetIds -> BetCatalog]
    /\ pc = "idle"
    /\ hours_buffer = HoursBufferDefault
    /\ rows = <<>>
    /\ txn_now = StartTime
    /\ league_to_matches = <<>>
    /\ fetch_failed = {}
    /\ idx = 0
    /\ row_log = <<>>
    /\ txn = NoTxn
    /\ settled = 0
    /\ exit = "none"
    /\ call = NoCall

Next ==
    \/ Skipped
    \/ StoreUnreachable
    \/ SelectRows
    \/ FetchLeague
    \/ ProcessBet
    \/ Commit
    \/ CommitRaises
    \/ Tick

Spec == Init /\ [][Next]_vars

-----------------------------------------------------------------------------
(* Direct calls of resolve_ah_bet_profit *)

\* odds in hundredths: below, at and above even money
OddsSamples == {50, 100, 190, 205}

CallResolve ==
    /\ call = NoCall
    /\ \E hg \in 0..MaxGoals, ag \in 0..MaxGoals, line \in (-MaxLineQ)..MaxLineQ,
          side \in {Home, Away}, odds \in OddsSamples, stake \in 1..MaxStake :
         call' = [fn |-> "resolve_ah_bet_profit",
                  args |-> <<Num(hg), Num(ag), Num(line), side, Num(odds), stake>>,
                  result |-> resolve_ah_bet_profit(Num(hg), Num(ag), Num(line), side,
                                                   Num(odds), stake)]
    /\ UNCHANGED <<now, bets>>
    /\ UNCHANGED runVars

\* no run of the settlement: the table holds one settled wager per id
InitNoRun ==
    /\ now = StartTime
    /\ bets = [i \in BetIds |-> CHOOSE b \in BetCatalog : b.status = "settled"]
    /\ pc = "idle"
    /\ hours_buffer = HoursBufferDefault
    /\ rows = <<>>
    /\ txn_now = StartTime
    /\ league_to_matches = <<>>
    /\ fetch_failed = {}
    /\ idx = 0
    /\ row_log = <<>>
    /\ txn = NoTxn
    /\ settled = 0
    /\ exit = "none"
    /\ call = NoCall

SpecResolve == InitNoRun /\ [][CallResolve]_vars

\* the rule of the specification, section 4.3 step 4, on integers: the margin
\* in quarters, the profit in 1/200 of a unit
ReferenceProfit(home, away, line, side, odds, stake) ==
    LET margin == IF side = Home THEN 4 * (home - away) + line
                  ELSE 4 * (away - home) + line
    IN  CASE margin > 1  -> 2 * stake * (odds - 100)
          [] margin = 1  -> stake * (odds - 100)
          [] margin = 0  -> 0
          [] margin = -1 -> -(100 * stake)
          [] margin < -1 -> -(200 * stake)

\* C2: for integer scores, quarter lines, side home or away, odds > 0 and
\* stake > 0, resolve_ah_bet_profit returns the profit of the reference rule
C2_ResolveMatchesReference ==
    call.fn = "resolve_ah_bet_profit" =>
        call.result = ReferenceProfit(call.args[1].val, call.args[2].val,
                                      call.args[3].val, call.args[4],
                                      call.args[5].val, call.args[6])

\* an away wager won by half: the margin (away - home) + line is +0.25
C2_Witness ==
    /\ call.fn = "resolve_ah_bet_profit"
    /\ call.args[4] = Away
    /\ 4 * (call.args[2].val - call.args[1].val) + call.args[3].val = 1
    /\ call.args[2].val # call.args[1].val
    /\ call.result = call.args[6] * (call.args[5].val - 100)
    /\ call.result > 0

-----------------------------------------------------------------------------
(* Settlement runs: what the claims speak of *)

\* the rows a run selected, by position
Selected == 1..Len(rows)

\* the rows the loop has gone through
Processed == 1..Len(row_log)

\* the frame fetched for the league of wager b (empty when there is none)
FrameOf(b) ==
    IF b.league.kind = "none" \/ b.league.val \notin DOMAIN league_to_matches
    THEN <<>> ELSE league_to_matches[b.league.val]

\* the names and the kickoff time of a match row as the provider wrote them
HomeNameOf(row) ==
    IF "home_name" \in DOMAIN row THEN row.home_name
    ELSE IF "homeTeam" \in DOMAIN row THEN row.homeTeam ELSE row.home

AwayNameOf(row) ==
    IF "away_name" \in DOMAIN row THEN row.away_name
    ELSE IF "awayTeam" \in DOMAIN row THEN row.awayTeam ELSE row.away

KickoffOf(row) ==
    IF "datetime_gmt8" \in DOMAIN row THEN row.datetime_gmt8.val
    ELSE IF "date_unix" \in DOMAIN row THEN row.date_unix.val ELSE row.date.val

\* the match row carries the wager's names, case and outer blanks folded
SameNames(row, b) ==
    /\ _normalize_team_name(HomeNameOf(row)) = _normalize_team_name(b.home)
    /\ _normalize_team_name(AwayNameOf(row)) = _normalize_team_name(b.away)

Distance(x, y) == IF x >= y THEN x - y ELSE y - x

\* the match row has both final goal counts
Finalized(row) ==
    /\ RowGet(row, "homeGoalCount").kind = "num"
    /\ RowGet(row, "awayGoalCount").kind = "num"

\* the rows of the wager's league that carry its names
NamesakesOf(b) == { j \in 1..Len(FrameOf(b)) : SameNames(FrameOf(b)[j], b) }

\* wager i has been settled by the run whose transaction started at txn_now
SettledByThisRun(i) ==
    /\ bets[i].status = "settled"
    /\ bets[i].settled_at = Num(txn_now)
    /\ \E k \in Selected : rows[k] = i

\* a step that starts a run which selects rows
SelectStep == pc \in {"idle", "done"} /\ pc' \in {"fetch", "bets"}

\* a step changes nothing of wager i: neither its row nor the transaction
UntouchedStep(i) ==
    /\ bets'[i] = bets[i]
    /\ pc' \in {"bets", "commit"} => \A w \in txn'.writes : w.bet_id # i

\* C1: a wager that has reached status settled is never selected by a run
\* and no step changes its profit/loss, status or settlement time
C1_SettledNeverRewritten ==
    [][ /\ \A i \in BetIds : bets[i].status = "settled" => UntouchedStep(i)
        /\ SelectStep => \A k \in 1..Len(rows') : bets[rows'[k]].status # "settled"
      ]_vars

\* a run has ended after an earlier run of the model settled a wager
C1_Witness ==
    /\ pc = "done" /\ exit = "ok" /\ rows # <<>>
    /\ \E i \in BetIds :
         /\ bets[i].status = "settled"
         /\ bets[i].settled_at.val >= StartTime
         /\ bets[i].settled_at.val < txn_now
         /\ bets[i].pl # None

\* C3: a run writes only wagers that are open or unset and kicked off before
\* now minus the buffer; a wager inside the buffer window is never written
C3_OnlyOldOpenWagersSettled ==
    [][ /\ \A i \in BetIds : bets'[i] # bets[i] =>
              /\ IsOpen(bets[i])
              /\ bets[i].dt_gmt8 < txn_now - hours_buffer
        /\ pc' \in {"bets", "commit"} => \A w \in txn'.writes :
              /\ IsOpen(bets[w.bet_id])
              /\ bets[w.bet_id].dt_gmt8 < txn_now' - hours_buffer'
      ]_vars

\* a run has settled a wager while another, kicked off inside the buffer
\* window, stayed open
C3_Witness ==
    /\ pc = "done" /\ exit = "ok"
    /\ \E i, j \in BetIds :
         /\ SettledByThisRun(i)
         /\ IsOpen(bets[j])
         /\ bets[j].dt_gmt8 < txn_now
         /\ bets[j].dt_gmt8 >= txn_now - hours_buffer
         /\ bets[j].settled_at = None /\ bets[j].pl = None

\* C4: the match used for a wager carries the wager's names, and among the
\* matches of the league that carry them it is one nearest in kickoff time
\* to the wager
C4_NearestNamesakeUsed ==
    \A k \in Processed : row_log[k].m # 0 =>
        LET b  == bets[rows[k]]
            df == FrameOf(b)
            m  == df[row_log[k].m]
        IN  /\ SameNames(m, b)
            /\ \A j \in NamesakesOf(b) :
                  Distance(KickoffOf(m), b.dt_gmt8) <= Distance(KickoffOf(df[j]), b.dt_gmt8)

\* C5: when no finalized match of the wager's league carries the wager's
\* names, the run leaves the wager as it is: no update, status still open
C5_NoMatchLeavesWagerOpen ==
    [][ \A k \in Selected :
            (/\ pc \in {"bets", "commit"}
             /\ \A j \in NamesakesOf(bets[rows[k]]) : ~Finalized(FrameOf(bets[rows[k]])[j]))
            => /\ UntouchedStep(rows[k])
               /\ IsOpen(bets'[rows[k]])
      ]_vars

\* a run that fetched matches for the wager's league, none of them a
\* finalized one with its names, has ended and the wager is still open
C5_Witness ==
    /\ pc = "done" /\ exit = "ok" /\ txn.state = "open" /\ txn.writes # {}
    /\ \E k \in Selected :
         LET b == bets[rows[k]]
         IN  /\ FrameOf(b) # <<>>
             /\ b.league.val \notin fetch_failed
             /\ SideOf(b) # NoSide
             /\ \A j \in NamesakesOf(b) : ~Finalized(FrameOf(b)[j])
             /\ IsOpen(b) /\ b.pl = None /\ b.settled_at = None

\* C6: when the matched match has a missing or non-finite goal count, the
\* wager stays open and no update is written for it
C6_MissingScoreLeavesWagerOpen ==
    [][ \A k \in Processed :
            (/\ row_log[k].m # 0
             /\ ~Finalized(FrameOf(bets[rows[k]])[row_log[k].m]))
            => /\ UntouchedStep(rows[k])
               /\ IsOpen(bets'[rows[k]])
      ]_vars

\* a run has ended in which a wager was matched to a match without finite
\* scores: the wager is open
C6_Witness ==
    /\ pc = "done" /\ exit = "ok" /\ txn.state = "open"
    /\ \E k \in Processed :
         /\ row_log[k].m # 0
         /\ ~Finalized(FrameOf(bets[rows[k]])[row_log[k].m])
         /\ IsOpen(bets[rows[k]])
         /\ bets[rows[k]].pl = None

\* C7: a failed fetch of one league gives that league an empty match set
\* and nothing else: the run goes on, the frames of the other leagues stay,
\* the selected wagers of the failed league stay open, and the updates
\* executed for wagers of the other leagues are committed by the same run
C7_FetchFailureIsolated ==
    [][ /\ pc = "fetch" =>
              /\ pc' \in {"fetch", "bets"}
              /\ \A l \in DOMAIN league_to_matches :
                    /\ l \in DOMAIN league_to_matches'
                    /\ league_to_matches'[l] = league_to_matches[l]
              /\ \A l \in fetch_failed' : league_to_matches'[l] = <<>>
        /\ \A k \in Selected :
              (pc \in {"bets", "commit"} /\ bets[rows[k]].league.val \in fetch_failed)
              => /\ UntouchedStep(rows[k])
                 /\ IsOpen(bets'[rows[k]])
        /\ (pc = "commit" /\ exit' = "ok" /\ txn.state = "open") =>
              \A k \in Selected :
                 (bets[rows[k]].league.val \notin fetch_failed /\ row_log[k].result = "ok")
                 => /\ bets'[rows[k]].status = "settled"
                    /\ bets'[rows[k]].settled_at = Num(txn_now)
      ]_vars

\* a run in which the fetch of one league failed has ended: a wager of that
\* league is open and a wager of another league was settled by the run
C7_Witness ==
    /\ pc = "done" /\ exit = "ok"
    /\ \E i, j \in Selected :
         /\ bets[rows[i]].league.val \in fetch_failed
         /\ SideOf(bets[rows[i]]) # NoSide
         /\ IsOpen(bets[rows[i]])
         /\ bets[rows[j]].league.val \notin fetch_failed
         /\ SettledByThisRun(rows[j])

\* the rows whose own UPDATE the store rejected
RejectedRows == { k \in Processed : row_log[k].result = "error" }

\* C8: when the update of one wager fails, the updates of all other wagers
\* of the batch, before and after it, are applied and committed by the run
C8_OtherUpdatesCommitted ==
    (pc = "done" /\ exit = "ok" /\ Cardinality(RejectedRows) = 1) =>
        \A k \in Processed \ RejectedRows :
            RowPlan(bets[rows[k]], league_to_matches).act = "update"
            => SettledByThisRun(rows[k])

\* C9 as stated: a run is aborted only at the start, before any row is
\* selected, and every run that selected wagers ends with the commit
C9_AbortOnlyAtStart ==
    /\ (pc = "done" /\ exit = "error") => (rows = <<>> /\ txn = NoTxn)
    /\ (pc = "done" /\ rows # <<>>) => exit = "ok"

\* C9, amended: a run is aborted only when the store cannot be reached, at
\* the start (connect, select) or at the final commit, and then no wager is
\* modified; a run that selected wagers goes through every league and every
\* row to the commit, whatever else fails
C9_AbortOnlyWhenStoreUnreachable ==
    [][ /\ (pc' = "done" /\ exit' = "error") =>
              /\ pc \in {"idle", "done", "commit"}
              /\ bets' = bets
        /\ SelectStep => rows' # <<>>
        /\ pc \in {"fetch", "bets"} =>
              /\ pc' \in {"fetch", "bets", "commit"}
              /\ exit' = "running"
        /\ pc = "commit" =>
              /\ idx = Len(rows) /\ rows # <<>>
              /\ pc' = "done" /\ exit' \in {"ok", "error"}
      ]_vars

\* a run lost the store at the commit, after an update was executed: it
\* ended in the outer except and the wager is still open
C9_Witness ==
    /\ pc = "done" /\ exit = "error" /\ txn.state = "lost"
    /\ \E k \in Processed :
         /\ row_log[k].result = "ok"
         /\ IsOpen(bets[rows[k]])
         /\ bets[rows[k]].pl = None

\* the match of wager b: the row of its league with its names whose kickoff
\* is nearer to the wager's than that of any other row with its names
IsMatchOf(j, b) ==
    /\ j \in NamesakesOf(b)
    /\ \A o \in NamesakesOf(b) \ {j} :
          Distance(KickoffOf(FrameOf(b)[j]), b.dt_gmt8)
              < Distance(KickoffOf(FrameOf(b)[o]), b.dt_gmt8)

\* C10: a selected wager whose match the provider returned with finite final
\* scores is settled by a run whose writes and commit succeed (so a wager
\* left open is settled by a later run once its match has scores)
C10_SettledOnceMatchHasScores ==
    (pc = "done" /\ exit = "ok" /\ txn.state = "open") =>
        \A k \in Selected :
            LET b == bets[rows[k]]
            IN  (/\ SideOf(b) # NoSide
                 /\ ~FloatRaises(line_val(b)) /\ ~FloatRaises(odds_val(b))
                 /\ \E j \in NamesakesOf(b) : IsMatchOf(j, b) /\ Finalized(FrameOf(b)[j]))
                => b.status = "settled"

-----------------------------------------------------------------------------
(* Python floats: IEEE 754 binary64, round to nearest, ties to even.

   A positive float is [m, e]: the value m * 2^e with 2^52 <= m < 2^53.  The
   53 bits of m do not fit a machine integer of the checker, so m is a
   natural number written in base 2^14, least significant digit first
   (a "big" number); a float's m has exactly FloatLimbs digits. *)

LimbBits == 14

LimbBase == 16384

MantissaBits == 53

FloatLimbs == 4

\* 2^n for n up to LimbBits
Pow2(n) == <<1, 2, 4, 8, 16, 32, 64, 128, 256, 512, 1024, 2048, 4096, 8192, 16384>>[n + 1]

RECURSIVE BigOfInt(_)
\* the digits of a natural number n
BigOfInt(n) == IF n < LimbBase THEN <<n>> ELSE <<n % LimbBase>> \o BigOfInt(n \div LimbBase)

RECURSIVE BigToInt(_)
\* the natural number of the digits a (it must fit a machine integer)
BigToInt(a) == IF a = <<>> THEN 0 ELSE a[1] + LimbBase * BigToInt(Tail(a))

RECURSIVE BigTrim(_)
\* a without its leading zero digits
BigTrim(a) ==
    IF a = <<>> \/ a[Len(a)] # 0 THEN a ELSE BigTrim(SubSeq(a, 1, Len(a) - 1))

\* a with leading zeros up to n digits
BigPad(a, n) == a \o [i \in 1..(n - Len(a)) |-> 0]

\* digit i of a, zero beyond its length
BigDigit(a, i) == IF i \in 1..Len(a) THEN a[i] ELSE 0

\* the number of bits of a digit
BitLenInt(n) == IF n = 0 THEN 0 ELSE CHOOSE k \in 1..LimbBits : Pow2(k - 1) <= n /\ n < Pow2(k)

\* the number of bits of a
BigBitLen(a) ==
    LET t == BigTrim(a)
    IN  IF t = <<>> THEN 0 ELSE LimbBits * (Len(t) - 1) + BitLenInt(t[Len(t)])

RECURSIVE BigCarry(_, _, _)
\* the digits of the number whose digit sums are cols[i..], with carry c
BigCarry(cols, i, c) ==
    IF i > Len(cols) THEN (IF c = 0 THEN <<>> ELSE BigOfInt(c))
    ELSE <<(cols[i] + c) % LimbBase>> \o BigCarry(cols, i + 1, (cols[i] + c) \div LimbBase)

RECURSIVE ColSum(_, _, _, _)
\* the sum of a[i] * b[j] over i + j = k + 1, from i on
ColSum(a, b, k, i) ==
    IF i > Len(a) THEN 0
    ELSE (IF (k + 1 - i) \in 1..Len(b) THEN a[i] * b[k + 1 - i] ELSE 0)
         + ColSum(a, b, k, i + 1)

\* a * b, for numbers of at most FloatLimbs digits
BigMul(a, b) ==
    BigCarry([k \in 1..(Len(a) + Len(b) - 1) |-> ColSum(a, b, k, 1)], 1, 0)

\* a * n for a small natural number n
BigMulSmall(a, n) == BigCarry([k \in 1..Len(a) |-> a[k] * n], 1, 0)

\* a * 2^n
BigShl(a, n) ==
    [i \in 1..(n \div LimbBits) |-> 0] \o BigMulSmall(a, Pow2(n % LimbBits))

\* floor(a / 2^n)
BigShr(a, n) ==
    LET q  == n \div LimbBits
        lo == Pow2(n % LimbBits)
        hi == Pow2(LimbBits - (n % LimbBits))
    IN  BigTrim([i \in 1..(Len(a) - q) |->
                    (BigDigit(a, i + q) \div lo) + (BigDigit(a, i + q + 1) % lo) * hi])

\* bit k of a (bit 0 is the least significant)
BigBit(a, k) == (BigDigit(a, (k \div LimbBits) + 1) \div Pow2(k % LimbBits)) % 2

\* a mod 2^k = 0
BigLowZero(a, k) ==
    /\ \A i \in 1..(k \div LimbBits) : BigDigit(a, i) = 0
    /\ BigDigit(a, (k \div LimbBits) + 1) % Pow2(k % LimbBits) = 0

\* a + 1
BigInc(a) == BigCarry([i \in 1..Len(a) |-> a[i]], 1, 1)

RECURSIVE BigLessFrom(_, _, _)
BigLessFrom(a, b, i) ==
    IF i = 0 THEN FALSE
    ELSE IF BigDigit(a, i) # BigDigit(b, i) THEN BigDigit(a, i) < BigDigit(b, i)
    ELSE BigLessFrom(a, b, i - 1)

\* a < b
BigLess(a, b) == BigLessFrom(a, b, IF Len(a) > Len(b) THEN Len(a) ELSE Len(b))

RECURSIVE BigSubFrom(_, _, _, _)
\* a - b for a >= b, from digit i on with borrow c
BigSubFrom(a, b, i, c) ==
    IF i > Len(a) THEN <<>>
    ELSE LET d == a[i] - BigDigit(b, i) - c
         IN  IF d < 0 THEN <<d + LimbBase>> \o BigSubFrom(a, b, i + 1, 1)
             ELSE <<d>> \o BigSubFrom(a, b, i + 1, 0)

BigSub(a, b) == BigTrim(BigSubFrom(a, b, 1, 0))

RECURSIVE BigDivSmallFrom(_, _, _, _)
\* long division of a by a small d, from digit i down with remainder r:
\* the quotient's digits, most significant first, then the remainder
BigDivSmallFrom(a, d, i, r) ==
    IF i = 0 THEN <<r>>
    ELSE <<(r * LimbBase + a[i]) \div d>>
         \o BigDivSmallFrom(a, d, i - 1, (r * LimbBase + a[i]) % d)

\* [q, r] with a = q * d + r and r < d, for d below 2^16
BigDivSmall(a, d) ==
    LET out == BigDivSmallFrom(a, d, Len(a), 0)
    IN  [q |-> BigTrim([i \in 1..Len(a) |-> out[Len(a) + 1 - i]]),
         r |-> out[Len(a) + 1]]

\* a / 2^n rounded to the nearest natural number, ties to even
BigRoundShr(a, n) ==
    IF n = 0 THEN BigTrim(a)
    ELSE LET q == BigShr(a, n)
             up == /\ BigBit(a, n - 1) = 1
                   /\ (~BigLowZero(a, n - 1) \/ BigBit(q, 0) = 1)
         IN  IF up THEN (IF q = <<>> THEN <<1>> ELSE BigInc(q)) ELSE q

\* the float nearest to a * 2^e, for a natural number a
FloatOfBig(a, e) ==
    LET len == BigBitLen(a)
    IN  IF len = 0 THEN [m |-> BigPad(<<>>, FloatLimbs), e |-> 0]
        ELSE IF len <= MantissaBits
        THEN [m |-> BigPad(BigTrim(BigShl(a, MantissaBits - len)), FloatLimbs),
              e |-> e - (MantissaBits - len)]
        ELSE LET r == BigRoundShr(a, len - MantissaBits)
             IN  IF BigBitLen(r) > MantissaBits
                 THEN [m |-> BigPad(BigShr(r, 1), FloatLimbs),
                       e |-> e + (len - MantissaBits) + 1]
                 ELSE [m |-> BigPad(r, FloatLimbs), e |-> e + (len - MantissaBits)]

\* x * y
FMul(x, y) == FloatOfBig(BigMul(x.m, y.m), x.e + y.e)

\* x - y for x >= y
FSub(x, y) ==
    LET e == IF x.e < y.e THEN x.e ELSE y.e
    IN  FloatOfBig(BigSub(BigShl(x.m, x.e - e), BigShl(y.m, y.e - e)), e)

\* x < y
FLess(x, y) ==
    IF BigBitLen(x.m) = 0 \/ BigBitLen(y.m) = 0 THEN BigBitLen(x.m) < BigBitLen(y.m)
    ELSE IF x.e # y.e THEN x.e < y.e ELSE BigLess(x.m, y.m)

RECURSIVE Log2Floor(_, _)
\* the largest t with d * 2^t <= n, for n >= d
Log2Floor(n, d) == IF 2 * d <= n THEN 1 + Log2Floor(n, 2 * d) ELSE 0

\* float(n / d) for the decimal n / d >= 1: the float nearest to it
FloatOfRatio(n, d) ==
    LET k  == MantissaBits - 1 - Log2Floor(n, d)
        qr == BigDivSmall(BigShl(BigOfInt(n), k), d)
        up == 2 * qr.r > d \/ (2 * qr.r = d /\ BigBit(qr.q, 0) = 1)
    IN  FloatOfBig(IF up THEN BigInc(qr.q) ELSE qr.q, -k)

RECURSIVE Pow10(_)
Pow10(n) == IF n = 0 THEN 1 ELSE 10 * Pow10(n - 1)

\* round(x, ndigits), and the digits "%.{ndigits}f" prints: the multiple of
\* 10^-ndigits nearest to the exact value of x, ties to even, in units of
\* 10^-ndigits
RoundDec(x, ndigits) ==
    LET a == BigMulSmall(x.m, Pow10(ndigits))
    IN  BigToInt(IF x.e >= 0 THEN BigShl(a, x.e) ELSE BigRoundShr(a, -x.e))

-----------------------------------------------------------------------------
(* The parlay builder: test_parlay_construction (src/test_parlay_wins.py).

   A team name is text (a sequence of letters).  The description of a
   combination is a sequence whose elements are the letters of the team
   names, the digits of the odds, and one element for each fixed piece of
   text, league name and expected outcome; the letters of the team names
   of the examples occur in none of these pieces, so the substring test of
   lines 339 and 362 is computed on the names alone.

   Decimal odds are given in tenths and turned into floats as float() does;
   the recorded odds are in 1/10000, the recorded payout and profit in
   hundredths. *)

\* the greatest number of rows of settled_bets_df
MaxPool == 6

\* LEAGUE_TIERS
LEAGUE_TIERS ==
    [l \in {"England Premier League", "Spain La Liga", "Germany Bundesliga",
            "Italy Serie A", "France Ligue 1"} |-> 1]
    @@ [l \in {"England Championship", "Netherlands Eredivisie", "Portugal Liga NOS",
               "Belgium Pro League", "Scotland Premiership"} |-> 2]

\* the tier of a league that LEAGUE_TIERS does not list
DefaultTier == 4

\* every league in the default tier
TierOfLeagueFlat(league) == DefaultTier

\* LEAGUE_TIERS.get(league, 4)
TierOfLeague(league) ==
    IF league \in DOMAIN LEAGUE_TIERS THEN LEAGUE_TIERS[league] ELSE DefaultTier

\* A row of settled_bets_df as test_bridge_logic appends it: odds10 is the
\* decimal odds in tenths, pl10 the profit in tenths of the unit stake
SettledRow(league, home, away, odds10, pl10, dt) ==
    [league |-> league, home |-> home, away |-> away,
     odds_betted_on_refined |-> FloatOfRatio(odds10, 10), odds10 |-> odds10,
     pl |-> pl10, status |-> "settled", dt_gmt8 |-> dt,
     expected |-> IF pl10 > 0 THEN <<"Home -0.5">> ELSE <<"Home +0.0">>]

\* The settled wagers the examples are drawn from.  Rows 1, 2, 4 and 5 are
\* four wagers of one league with odds 1.8, 1.9, 1.9, 1.8 in kickoff order;
\* row 8 is a cup tie of the teams of row 1; row 13 is a lost wager (profit -stake).
MockSettledBets ==
    << SettledRow("England Premier League", <<"a">>, <<"b">>, 18, 8, 3),
       SettledRow("England Premier League", <<"c">>, <<"d">>, 19, 9, 4),
       SettledRow("Spain La Liga", <<"m">>, <<"n">>, 20, 10, 1),
       SettledRow("England Premier League", <<"e">>, <<"f">>, 19, 9, 5),
       SettledRow("England Premier League", <<"g">>, <<"h">>, 18, 8, 6),
       SettledRow("Japan J1 League", <<"x">>, <<"y">>, 19, 9, 2),
       SettledRow("England Premier League", <<"i">>, <<"j">>, 21, 11, 2),
       SettledRow("England FA Cup", <<"a">>, <<"b">>, 20, 10, 7),
       SettledRow("Spain La Liga", <<"p">>, <<"q">>, 17, 7, 8),
       SettledRow("Japan J1 League", <<"z">>, <<"w">>, 16, 6, 1),
       SettledRow("Netherlands Eredivisie", <<"r">>, <<"t">>, 22, 12, 4),
       SettledRow("England Premier League", <<"k">>, <<"l">>, 15, 5, 9),
       SettledRow("Spain La Liga", <<"u">>, <<"o">>, 20, -10, 6) >>

RECURSIVE RowsIn(_, _)
\* the members of the set S of row numbers from i on, in increasing order
RowsIn(S, i) ==
    IF i > Len(MockSettledBets) THEN <<>>
    ELSE (IF i \in S THEN <<i>> ELSE <<>>) \o RowsIn(S, i + 1)

\* The frames settled_bets_df may be: the rows of at most MaxPool examples,
\* each with its index in the frame's source as the identity of the wager
SettledFrames ==
    { [k \in 1..Cardinality(S) |->
         [row |-> RowsIn(S, 1)[k]] @@ MockSettledBets[RowsIn(S, 1)[k]]] :
      S \in { T \in SUBSET (1..Len(MockSettledBets)) : Cardinality(T) <= MaxPool } }

\* the digit n as text
DigitChar(n) == <<"0", "1", "2", "3", "4", "5", "6", "7", "8", "9">>[n + 1]

RECURSIVE Digits(_)
\* the decimal digits of a natural number
Digits(n) == IF n < 10 THEN <<DigitChar(n)>> ELSE Digits(n \div 10) \o <<DigitChar(n % 10)>>

\* f"{x:.2f}"
FormatFixed2(x) ==
    LET h == RoundDec(x, 2)
    IN  Digits(h \div 100) \o <<".">> \o <<DigitChar((h \div 10) % 10), DigitChar(h % 10)>>

\* f"{row['home']} vs {row['away']} | {row['expected']}@{odds:.2f}"
RecOf(row) ==
    row.home \o <<" vs ">> \o row.away \o <<" | ">> \o row.expected \o <<"@">>
    \o FormatFixed2(row.odds_betted_on_refined)

\* the dict appended to bets for a row; row stands for the identity of the
\* dict, which the code's legs have as objects
LegOf(r) ==
    [row |-> r.row, dt |-> r.dt_gmt8, home |-> r.home, away |-> r.away,
     odds |-> r.odds_betted_on_refined, rec |-> RecOf(r),
     league |-> r.league, tier |-> TierOfLeague(r.league)]

\* the guard of lines 258-259 with a test that lets every row through
KeepEveryRow(r) == FALSE

\* row['pl'] <= 0: the row is no winning bet
NotWinning(r) == r.pl <= 0

RECURSIVE WinningLegs(_, _)
\* the list bets after the loop of lines 257-272, from row i on
WinningLegs(df, i) ==
    IF i > Len(df) THEN <<>>
    ELSE (IF NotWinning(df[i]) THEN <<>> ELSE <<LegOf(df[i])>>) \o WinningLegs(df, i + 1)

RECURSIVE InsertByDt(_, _)
\* leg put into a list sorted by dt, after the legs that are not later
InsertByDt(leg, sorted) ==
    IF sorted = <<>> THEN <<leg>>
    ELSE IF leg.dt < sorted[1].dt THEN <<leg>> \o sorted
    ELSE <<sorted[1]>> \o InsertByDt(leg, Tail(sorted))

RECURSIVE SortedByDt(_, _)
\* sorted(legs, key=lambda x: x['dt']): the first n legs in a stable order
SortedByDt(legs, n) ==
    IF n = 0 THEN <<>> ELSE InsertByDt(legs[n], SortedByDt(legs, n - 1))

\* the greatest number of legs of a window
MaxLegsPerWindow == 12

\* sorted(legs, key=lambda x: x['dt'])[:12]
WindowLegs(legs) ==
    LET sorted == SortedByDt(legs, Len(legs))
    IN  SubSeq(sorted, 1, IF Len(sorted) < MaxLegsPerWindow THEN Len(sorted)
                          ELSE MaxLegsPerWindow)

RECURSIVE KeysInOrder(_, _)
\* the keys of a dict filled from the list ks: each once, in the order of
\* its first occurrence
KeysInOrder(ks, seen) ==
    IF ks = <<>> THEN <<>>
    ELSE IF ks[1] \in seen THEN KeysInOrder(Tail(ks), seen)
    ELSE <<ks[1]>> \o KeysInOrder(Tail(ks), seen \cup {ks[1]})

RECURSIVE LegsWhere(_, _, _)
\* the legs whose field f is v, in order
LegsWhere(legs, f, v) ==
    IF legs = <<>> THEN <<>>
    ELSE (IF legs[1][f] = v THEN <<legs[1]>> ELSE <<>>) \o LegsWhere(Tail(legs), f, v)

\* league_groups and tier_groups: the keys in insertion order
GroupKeys(legs, f) == KeysInOrder([i \in 1..Len(legs) |-> legs[i][f]], {})

RECURSIVE PrependAll(_, _)
\* x put before each of the sequences of seqs
PrependAll(x, seqs) ==
    IF seqs = <<>> THEN <<>>
    ELSE << <<x>> \o seqs[1] >> \o PrependAll(x, Tail(seqs))

RECURSIVE Combinations(_, _)
\* itertools.combinations(s, k), in the order it yields them
Combinations(s, k) ==
    IF k = 0 THEN << <<>> >>
    ELSE IF Len(s) < k THEN <<>>
    ELSE PrependAll(s[1], Combinations(Tail(s), k - 1)) \o Combinations(Tail(s), k)

\* 1.0
FloatOne == FloatOfRatio(1, 1)

\* lg['odds'] or 1.0
OddsOrOne(x) == IF BigBitLen(x.m) = 0 THEN FloatOne ELSE x

RECURSIVE ProdOf(_, _)
\* prod after the loop "prod *= float(lg['odds'] or 1.0)" over the first n
\* legs of combo
ProdOf(combo, n) ==
    IF n = 0 THEN FloatOne ELSE FMul(ProdOf(combo, n - 1), OddsOrOne(combo[n].odds))

\* 1.05
FloatBonus == FloatOfRatio(105, 100)

\* same_league_bonus
SameLeagueBonus(size) == IF size >= 4 THEN FloatBonus ELSE FloatOne

RECURSIVE ScoredOf(_, _)
\* (prod * bonus, combo) for each of the combinations cs, in order
ScoredOf(cs, bonus) ==
    IF cs = <<>> THEN <<>>
    ELSE <<[score |-> FMul(ProdOf(cs[1], Len(cs[1])), bonus), combo |-> cs[1]]>>
         \o ScoredOf(Tail(cs), bonus)

\* the list scored of one group and size: (score, combo) in enumeration order
Scored(group, size, bonus) == ScoredOf(Combinations(group, size), bonus)

RECURSIVE BottomFrom(_, _, _)
BottomFrom(scored, i, worst) ==
    IF i > Len(scored) THEN worst
    ELSE BottomFrom(scored, i + 1,
                    IF FLess(scored[i].score, worst.score) THEN scored[i] ELSE worst)

\* the first of the entries with the least score
Bottom(scored) == BottomFrom(scored, 2, scored[1])

RECURSIVE TopFrom(_, _, _)
\* the first entry of scored[i..] with a score above best's, and so on; best
\* when there is none
TopFrom(scored, i, best) ==
    IF i > Len(scored) THEN best
    ELSE TopFrom(scored, i + 1,
                 IF FLess(best.score, scored[i].score) THEN scored[i] ELSE best)

\* scored.sort(key=lambda x: x[0], reverse=True); scored[:1] -- the sort is
\* stable, so the top is the first of the entries with the greatest score
Top(scored) == TopFrom(scored, 2, scored[1])

RECURSIVE MinDt(_)
MinDt(combo) ==
    IF Len(combo) = 1 THEN combo[1].dt
    ELSE LET m == MinDt(Tail(combo)) IN IF combo[1].dt < m THEN combo[1].dt ELSE m

RECURSIVE MaxDt(_)
MaxDt(combo) ==
    IF Len(combo) = 1 THEN combo[1].dt
    ELSE LET m == MaxDt(Tail(combo)) IN IF combo[1].dt > m THEN combo[1].dt ELSE m

RECURSIVE JoinRecs(_)
\* " || ".join([l['rec'] for l in combo])
JoinRecs(combo) ==
    IF Len(combo) = 1 THEN combo[1].rec
    ELSE combo[1].rec \o <<" || ">> \o JoinRecs(Tail(combo))

\* stake = 100.0
ParlayStake == FloatOfRatio(100, 1)

\* The list appended to results for the top (prod, combo) of a group, with
\* the combo it was made of: odds is round(prod, 4), payout round(payout, 2)
\* and profit round(profit, 2)
ResultRow(top, label) ==
    LET payout == FMul(ParlayStake, top.score)
        profit == FSub(payout, ParlayStake)
    IN  [start |-> MinDt(top.combo), end |-> MaxDt(top.combo),
         n |-> Len(top.combo), odds |-> RoundDec(top.score, 4),
         stake |-> RoundDec(ParlayStake, 0), payout |-> RoundDec(payout, 2),
         profit |-> RoundDec(profit, 2),
         text |-> label \o JoinRecs(top.combo),
         combo |-> top.combo]

\* the smaller of two numbers
Min(a, b) == IF a < b THEN a ELSE b

RECURSIVE TopPerSize(_, _, _, _, _)
\* the rows appended for one group: one per size from size to hi - 1
TopPerSize(group, size, hi, bonused, label) ==
    IF size >= hi THEN <<>>
    ELSE <<ResultRow(Top(Scored(group, size,
                                 IF bonused THEN SameLeagueBonus(size) ELSE FloatOne)),
                     label)>>
         \o TopPerSize(group, size + 1, hi, bonused, label)

\* sizes up to three only
SameLeagueSizesEndThree(n) == 4

\* the end of range(3, min(6, len(league_legs) + 1))
SameLeagueSizesEnd(n) == Min(6, n + 1)

\* the end of range(3, min(5, len(available_legs) + 1))
SameTierSizesEnd(n) == Min(5, n + 1)

RECURSIVE SameLeagueRows(_, _, _)
\* lines 303-327: the rows appended for the leagues keys[i..]
SameLeagueRows(legs, keys, i) ==
    IF i > Len(keys) THEN <<>>
    ELSE LET league_legs == LegsWhere(legs, "league", keys[i])
         IN  (IF Len(league_legs) >= 3
              THEN TopPerSize(league_legs, 3, SameLeagueSizesEnd(Len(league_legs)), TRUE,
                              <<"[SAME LEAGUE - ", keys[i], "] ">>)
              ELSE <<>>)
             \o SameLeagueRows(legs, keys, i + 1)

\* no leg is ever taken as used
NeverUsed(leg, results) == FALSE

RECURSIVE Used(_, _)
\* len([r for r in results if leg['home'] in r[-1] and leg['away'] in r[-1]]) != 0
Used(leg, results) ==
    IF results = <<>> THEN FALSE
    ELSE \/ Contains(results[1].text, leg.home) /\ Contains(results[1].text, leg.away)
         \/ Used(leg, Tail(results))

RECURSIVE Available(_, _)
\* [leg for leg in legs if not used], in order
Available(legs, results) ==
    IF legs = <<>> THEN <<>>
    ELSE (IF Used(legs[1], results) THEN <<>> ELSE <<legs[1]>>)
         \o Available(Tail(legs), results)

\* the digits of a tier number, as f"[TIER {tier}] " prints them
TierLabel(tier) == <<"[TIER ">> \o Digits(tier) \o <<"] ">>

RECURSIVE SameTierRows(_, _, _, _)
\* lines 337-359: results after the tiers keys[i..], each group filtered
\* against the results so far
SameTierRows(legs, keys, i, results) ==
    IF i > Len(keys) THEN results
    ELSE LET available_legs == Available(LegsWhere(legs, "tier", keys[i]), results)
         IN  SameTierRows(legs, keys, i + 1,
                 results \o (IF Len(available_legs) >= 3
                             THEN TopPerSize(available_legs, 3,
                                             SameTierSizesEnd(Len(available_legs)),
                                             FALSE, TierLabel(keys[i]))
                             ELSE <<>>))

\* lines 362-381: results after the mixed fallback
MixedRows(legs, results) ==
    LET available_legs == Available(legs, results)
    IN  results \o (IF Len(available_legs) >= 3
                    THEN <<ResultRow(Top(Scored(available_legs, 3, FloatOne)), <<"[MIXED] ">>)>>
                    ELSE <<>>)

\* a call of test_parlay_construction(settled_bets_df) at its entry
ParlayCall(df) ==
    [fn |-> "test_parlay_construction", args |-> <<df>>, result |-> <<>>,
     at |-> "entry", bets |-> <<>>, legs |-> <<>>, results |-> <<>>,
     available_legs |-> <<>>]

\* the call in progress is one of the parlay builder, at position p
InParlay(p) == call.fn = "test_parlay_construction" /\ call.at = p

\* lines 243-245: settled_bets_df.empty
NoSettledBets ==
    /\ InParlay("entry")
    /\ call.args[1] = <<>>
    /\ call' = [call EXCEPT !.at = "returned"]
    /\ UNCHANGED <<now, bets>>
    /\ UNCHANGED runVars

\* lines 255-272: the winning rows become the list bets
BuildLegs ==
    /\ InParlay("entry")
    /\ call.args[1] # <<>>
    /\ call' = [call EXCEPT !.bets = WinningLegs(call.args[1], 1), !.at = "window"]
    /\ UNCHANGED <<now, bets>>
    /\ UNCHANGED runVars

\* lines 280-293: one window holds every leg; a window of fewer than three
\* legs is skipped, the others are sorted by kickoff and cut to twelve
WindowOfLegs ==
    /\ InParlay("window")
    /\ IF Len(call.bets) < 3
       THEN call' = [call EXCEPT !.at = "returned"]
       ELSE call' = [call EXCEPT !.legs = WindowLegs(call.bets), !.at = "same_league"]
    /\ UNCHANGED <<now, bets>>
    /\ UNCHANGED runVars

\* lines 295-327: PRIORITY 1
SameLeagueParlays ==
    /\ InParlay("same_league")
    /\ call' = [call EXCEPT
                  !.results = SameLeagueRows(call.legs, GroupKeys(call.legs, "league"), 1),
                  !.at = "same_tier"]
    /\ UNCHANGED <<now, bets>>
    /\ UNCHANGED runVars

\* lines 329-359: PRIORITY 2
SameTierParlays ==
    /\ InParlay("same_tier")
    /\ call' = [call EXCEPT
                  !.results = SameTierRows(call.legs, GroupKeys(call.legs, "tier"), 1,
                                           call.results),
                  !.at = "mixed"]
    /\ UNCHANGED <<now, bets>>
    /\ UNCHANGED runVars

\* lines 361-397: PRIORITY 3 and the return of results
MixedParlays ==
    /\ InParlay("mixed")
    /\ LET results == MixedRows(call.legs, call.results)
       IN  call' = [call EXCEPT !.available_legs = Available(call.legs, call.results),
                                !.results = results, !.result = results,
                                !.at = "returned"]
    /\ UNCHANGED <<now, bets>>
    /\ UNCHANGED runVars

\* no settlement run; the builder is called on one of the frames
InitParlay ==
    /\ now = StartTime
    /\ bets = [i \in BetIds |-> CHOOSE b \in BetCatalog : b.status = "settled"]
    /\ pc = "idle"
    /\ hours_buffer = HoursBufferDefault
    /\ rows = <<>>
    /\ txn_now = StartTime
    /\ league_to_matches = <<>>
    /\ fetch_failed = {}
    /\ idx = 0
    /\ row_log = <<>>
    /\ txn = NoTxn
    /\ settled = 0
    /\ exit = "none"
    /\ call \in { ParlayCall(df) : df \in SettledFrames }

NextParlay ==
    \/ NoSettledBets
    \/ BuildLegs
    \/ WindowOfLegs
    \/ SameLeagueParlays
    \/ SameTierParlays
    \/ MixedParlays

SpecParlay == InitParlay /\ [][NextParlay]_vars

-----------------------------------------------------------------------------
(* The parlay builder: what the claims speak of *)

\* the builder has returned from a window of at least three legs
ParlayReturned == InParlay("returned") /\ call.legs # <<>>

\* the tier of a row of results, read from its label
TierOfResult(r) ==
    CASE r.text[1] = "[SAME LEAGUE - " -> 1
      [] r.text[1] = "[TIER "          -> 2
      [] r.text[1] = "[MIXED] "        -> 3

\* the wagers of a combination, by identity
RowsOf(combo) == { combo[j].row : j \in 1..Len(combo) }

\* the rows of results of tier t
ResultsOfTier(t) ==
    { k \in 1..Len(call.results) : TierOfResult(call.results[k]) = t }

\* the wagers used by the combinations of the tiers in ts
UsedRows(ts) ==
    UNION { RowsOf(call.results[k].combo) :
            k \in { j \in 1..Len(call.results) : TierOfResult(call.results[j]) \in ts } }

RECURSIVE ExactProd(_)
\* the product of the decimal odds of a combination, in 10^-Len(combo)
ExactProd(combo) ==
    IF combo = <<>> THEN 1
    ELSE MockSettledBets[combo[1].row].odds10 * ExactProd(Tail(combo))

\* the legs of the window that are not among the wagers in S, in order
LegsNotIn(S) ==
    LET keep == { i \in 1..Len(call.legs) : call.legs[i].row \notin S }
    IN  [k \in 1..Cardinality(keep) |->
            call.legs[CHOOSE i \in keep : Cardinality({j \in keep : j < i}) = k - 1]]

\* combo has the greatest product of odds among the combinations of its
\* size drawn from group
BestOf(combo, group) ==
    /\ RowsOf(combo) \subseteq RowsOf(group)
    /\ \A i \in 1..Len(Combinations(group, Len(combo))) :
          ExactProd(Combinations(group, Len(combo))[i]) <= ExactProd(combo)

\* C11: a leg of a Tier-1 combination is in no Tier-2 or Tier-3 combination,
\* and a leg of a Tier-2 combination is not in the Tier-3 combination
C11_TiersShareNoLeg ==
    call.fn = "test_parlay_construction" =>
        \A i, j \in 1..Len(call.results) :
            TierOfResult(call.results[i]) < TierOfResult(call.results[j])
            => RowsOf(call.results[i].combo) \cap RowsOf(call.results[j].combo) = {}

\* the builder returned a same-tier combination and then a mixed one made
\* of the three legs the earlier one left
C11_Witness ==
    /\ ParlayReturned
    /\ ResultsOfTier(2) # {} /\ ResultsOfTier(3) # {}
    /\ Len(call.legs) = Cardinality(UsedRows({2})) + 3
    /\ UsedRows({3}) = RowsOf(call.legs) \ UsedRows({2})

\* C12: a leg that is in no Tier-1 or Tier-2 combination is among the legs
\* Tier 3 chooses from, whatever the names of the legs that were used
C12_UnusedLegStaysAvailable ==
    ParlayReturned =>
        \A i \in 1..Len(call.legs) :
            call.legs[i].row \notin UsedRows({1, 2})
            => \E j \in 1..Len(call.available_legs) : call.available_legs[j] = call.legs[i]

\* the legs of the window that belong to league, in kickoff order
LegsOfLeague(league) ==
    SelectSeq(call.legs, LAMBDA leg : leg.league = league)

\* the leagues that have a leg in the window
LeaguesOfLegs == { call.legs[i].league : i \in 1..Len(call.legs) }

\* the rows of results of Tier 1 for league with k legs
SameLeagueHits(league, k) ==
    { i \in ResultsOfTier(1) :
        call.results[i].text[2] = league /\ Len(call.results[i].combo) = k }

\* C13: for every league with at least 3 legs and every size from 3 to
\* min(5, legs of the league) Tier 1 keeps exactly one combination, made of
\* legs of that league, whose product of odds is the greatest among the
\* combinations of that size of the league (the bonus is the same factor for
\* all of them); a league with fewer than 3 legs has no Tier-1 combination
C13_OneBestPerLeagueAndSize ==
    ParlayReturned =>
        /\ \A i \in ResultsOfTier(1) :
              /\ Len(call.results[i].combo) \in 3..5
              /\ call.results[i].n = Len(call.results[i].combo)
              /\ call.results[i].text[2] \in LeaguesOfLegs
        /\ \A league \in LeaguesOfLegs : \A k \in 3..5 :
              IF k <= Len(LegsOfLeague(league))
              THEN /\ Cardinality(SameLeagueHits(league, k)) = 1
                   /\ \A i \in SameLeagueHits(league, k) :
                         BestOf(call.results[i].combo, LegsOfLeague(league))
              ELSE SameLeagueHits(league, k) = {}

\* a league with six legs got its three combinations, of 3, 4 and 5 legs
C13_Witness ==
    /\ ParlayReturned
    /\ \E league \in LeaguesOfLegs :
          /\ Len(LegsOfLeague(league)) = 6
          /\ \A k \in 3..5 : Cardinality(SameLeagueHits(league, k)) = 1

\* the legs of the window whose league is of tier and that are in no
\* Tier-1 combination, in kickoff order
LegsOfTierLeft(tier) ==
    SelectSeq(call.legs,
              LAMBDA leg : TierOfLeague(leg.league) = tier /\ leg.row \notin UsedRows({1}))

\* the tiers that have a leg in the window
TiersOfLegs == { TierOfLeague(call.legs[i].league) : i \in 1..Len(call.legs) }

\* the rows of results of Tier 2 for tier with k legs
SameTierHits(tier, k) ==
    { i \in ResultsOfTier(2) :
        /\ SubSeq(call.results[i].text, 1, Len(TierLabel(tier))) = TierLabel(tier)
        /\ Len(call.results[i].combo) = k }

\* C14: legs are grouped by the tier of their league (4 for a league that
\* is not listed); for every tier with at least 3 legs left by Tier 1 and
\* every size 3 or 4 not above their number, Tier 2 keeps exactly one
\* combination, with the greatest product of odds among the combinations of
\* that size of the legs left in the tier
C14_OneBestPerTierAndSize ==
    ParlayReturned =>
        \A tier \in TiersOfLegs : \A k \in 3..4 :
            IF k <= Len(LegsOfTierLeft(tier))
            THEN /\ Cardinality(SameTierHits(tier, k)) = 1
                 /\ \A i \in SameTierHits(tier, k) :
                       BestOf(call.results[i].combo, LegsOfTierLeft(tier))
            ELSE SameTierHits(tier, k) = {}

\* C15: when at least 3 legs are in no Tier-1 or Tier-2 combination, Tier 3
\* keeps exactly one combination, of 3 of those legs, with the greatest
\* product of odds among their 3-leg combinations; with fewer than 3 such
\* legs it keeps nothing
C15_OneBestMixedOfUnused ==
    ParlayReturned =>
        IF Len(LegsNotIn(UsedRows({1, 2}))) >= 3
        THEN /\ Cardinality(ResultsOfTier(3)) = 1
             /\ \A i \in ResultsOfTier(3) :
                   /\ Len(call.results[i].combo) = 3
                   /\ BestOf(call.results[i].combo, LegsNotIn(UsedRows({1, 2})))
        ELSE ResultsOfTier(3) = {}

\* the recorded payout of row r of results, in hundredths, is 100 times the
\* product of the decimal odds of its legs, to the nearest hundredth
PayoutIsStakeTimesOdds(r) ==
    IF Len(r.combo) <= 4
    THEN r.payout = ExactProd(r.combo) * Pow10(4 - Len(r.combo))
    ELSE /\ 10 * r.payout - ExactProd(r.combo) <= 5
         /\ ExactProd(r.combo) - 10 * r.payout <= 5

\* C16: every kept combination, of any tier, records the stake 100, a
\* payout of 100 times the product of the decimal odds of its legs, and a
\* profit of payout minus stake
C16_PayoutIsStakeTimesOdds ==
    ParlayReturned =>
        \A i \in 1..Len(call.results) :
            /\ call.results[i].stake = 100
            /\ PayoutIsStakeTimesOdds(call.results[i])
            /\ call.results[i].profit = call.results[i].payout - 100 * 100

\* combo is, among the combinations of its size drawn from group that have
\* the greatest product of odds, the first one that is enumerated
FirstBestOf(combo, group) ==
    LET cs == Combinations(group, Len(combo))
    IN  \E i \in 1..Len(cs) :
            /\ cs[i] = combo
            /\ \A j \in 1..Len(cs) : ExactProd(cs[j]) <= ExactProd(combo)
            /\ \A j \in 1..(i - 1) : ExactProd(cs[j]) < ExactProd(combo)

\* C17: when several combinations of one group and size have the top score,
\* the kept one is the first in enumeration order, that is the smallest by
\* the positions of its legs in the kickoff-sorted legs (stated for the
\* groups of Tier 1, the legs of a league, and for the group of Tier 3, the
\* legs it chooses from)
C17_TieKeepsFirstEnumerated ==
    ParlayReturned =>
        /\ \A i \in ResultsOfTier(1) :
              FirstBestOf(call.results[i].combo, LegsOfLeague(call.results[i].text[2]))
        /\ \A i \in ResultsOfTier(3) :
              FirstBestOf(call.results[i].combo, call.available_legs)

\* C18: when the frame has exactly 4 winning rows and all are of one league,
\* the builder returns exactly two combinations, both of Tier 1, one of 3
\* legs and one of 4, that together use all 4 legs; Tiers 2 and 3 add none
C18_FourLegsOneLeague ==
    (ParlayReturned /\ Len(call.legs) = 4 /\ Cardinality(LeaguesOfLegs) = 1) =>
        /\ Len(call.results) = 2
        /\ ResultsOfTier(1) = {1, 2}
        /\ { Len(call.results[i].combo) : i \in 1..2 } = {3, 4}
        /\ UsedRows({1}) = RowsOf(call.legs)
        /\ ResultsOfTier(2) = {} /\ ResultsOfTier(3) = {}

\* the builder returned from a frame that, beside losing rows, has four
\* winning rows, all of one league
C18_Witness ==
    /\ ParlayReturned
    /\ Len(call.legs) = 4 /\ Cardinality(LeaguesOfLegs) = 1
    /\ Len(call.args[1]) > 4
    /\ Len(call.results) = 2

\* the window has 4 legs, of two leagues with 2 legs each
TwoLeaguesOfTwo ==
    /\ Len(call.legs) = 4
    /\ Cardinality(LeaguesOfLegs) = 2
    /\ \A league \in LeaguesOfLegs : Len(LegsOfLeague(league)) = 2

\* the builder returned one combination only, a mixed one of 3 legs, and
\* one leg of the window is in no combination
OneMixedOfThree ==
    /\ Len(call.results) = 1
    /\ ResultsOfTier(3) = {1}
    /\ Len(call.results[1].combo) = 3
    /\ Cardinality(RowsOf(call.legs) \ UsedRows({1, 2, 3})) = 1

\* C19 as stated: on 4 winning legs of two leagues with 2 legs each the
\* builder returns exactly one combination, a Tier-3 one of 3 legs, and
\* leaves one leg unused
C19_TwoLeaguesGiveOneMixed ==
    (ParlayReturned /\ TwoLeaguesOfTwo) => OneMixedOfThree

\* leagues a and b are classified alike by the table of lines 248-253:
\* both unlisted, or both listed with the same tier
ListedAlike(a, b) ==
    IF a \in DOMAIN LEAGUE_TIERS /\ b \in DOMAIN LEAGUE_TIERS
    THEN LEAGUE_TIERS[a] = LEAGUE_TIERS[b]
    ELSE a \notin DOMAIN LEAGUE_TIERS /\ b \notin DOMAIN LEAGUE_TIERS

\* the leagues of the window are not all classified alike
LeaguesOfDifferentTiers ==
    \E a, b \in LeaguesOfLegs : ~ListedAlike(a, b)

\* C19 amended: the same, when the two leagues are of different tiers
C19_TwoLeaguesOfTwoTiersGiveOneMixed ==
    (ParlayReturned /\ TwoLeaguesOfTwo /\ LeaguesOfDifferentTiers)
        => OneMixedOfThree

\* the builder returned from 4 winning legs of two leagues of different
\* tiers, 2 legs each, with its single mixed combination
C19_Witness ==
    /\ ParlayReturned /\ TwoLeaguesOfTwo /\ LeaguesOfDifferentTiers
    /\ Len(call.results) = 1
    /\ call.results[1].text[1] = "[MIXED] "

\* the row of the frame that leg was made of
SourceRowOf(leg) ==
    CHOOSE r \in { call.args[1][i] : i \in 1..Len(call.args[1]) } : r.row = leg.row

\* C20: in every combination returned, of any tier, the legs are pairwise
\* distinct wagers and each leg is a settled wager of the frame with a
\* strictly positive profit
C20_LegsDistinctSettledWinners ==
    call.fn = "test_parlay_construction" =>
        \A i \in 1..Len(call.results) :
            /\ Cardinality(RowsOf(call.results[i].combo)) = Len(call.results[i].combo)
            /\ \A j \in 1..Len(call.results[i].combo) :
                  /\ \E k \in 1..Len(call.args[1]) :
                        call.args[1][k].row = call.results[i].combo[j].row
                  /\ SourceRowOf(call.results[i].combo[j]).status = "settled"
                  /\ SourceRowOf(call.results[i].combo[j]).pl > 0

\* the builder returned combinations from a frame that holds a lost wager
\* of the league of two winning ones
C20_Witness ==
    /\ ParlayReturned
    /\ call.results # <<>>
    /\ \E k \in 1..Len(call.args[1]) :
          /\ call.args[1][k].pl <= 0
          /\ Len(LegsOfLeague(call.args[1][k].league)) = 2

-----------------------------------------------------------------------------
(* src/test_gbm_core.py: calculate_ev_for_ah_bet                           *)
(*                                                                         *)
(* Probabilities and odds are in hundredths, profits per outcome in 1/200  *)
(* of a unit as in resolve_ah_bet_profit, so the expected value is in      *)
(* 1/20000 of a unit and every value is an integer.                        *)

\* calculate_ev_for_ah_bet with a half win paid as a full win
EvHalfWinAsWin(p_w, p_hw, p_p, p_hl, p_l, odds) ==
    IF IsNa(odds) \/ odds.val <= 0 THEN NaN
    ELSE LET profit_win == 2 * (odds.val - 100)
         IN  Num((p_w * profit_win) + (p_hw * profit_win) + (p_p * 0)
                 + (p_hl * (-100)) + (p_l * (-200)))

\* calculate_ev_for_ah_bet with a half loss paid as a full loss
EvHalfLossAsLoss(p_w, p_hw, p_p, p_hl, p_l, odds) ==
    IF IsNa(odds) \/ odds.val <= 0 THEN NaN
    ELSE LET profit_win == 2 * (odds.val - 100)
         IN  Num((p_w * profit_win) + (p_hw * (profit_win \div 2)) + (p_p * 0)
                 + (p_hl * (-200)) + (p_l * (-200)))

\* calculate_ev_for_ah_bet(p_w, p_hw, p_p, p_hl, p_l, odds): odds is a tagged
\* value, the result Num(ev) or NaN
calculate_ev_for_ah_bet(p_w, p_hw, p_p, p_hl, p_l, odds) ==
    IF IsNa(odds) \/ odds.val <= 0 THEN NaN
    ELSE LET profit_win == 2 * (odds.val - 100)
             profit_hw  == profit_win \div 2
             profit_p   == 0
             profit_hl  == -100
             profit_l   == -200
         IN  Num((p_w * profit_win) + (p_hw * profit_hw) + (p_p * profit_p)
                 + (p_hl * profit_hl) + (p_l * profit_l))

\* the probabilities a call is made with, in hundredths
ProbSamples == {0, 50, 100}

\* the probability vectors of the calls: total mass at most 1
ProbVectors ==
    { p \in [1..5 -> ProbSamples] : p[1] + p[2] + p[3] + p[4] + p[5] <= 100 }

\* the odds a call is made with: missing, negative, zero, and positive odds
\* below, at and above even money
EvOdds == {None, NaN, Num(-100), Num(0)} \cup { Num(o) : o \in OddsSamples }

\* a direct call of calculate_ev_for_ah_bet
CallEv ==
    /\ call.fn = "none"
    /\ \E p \in ProbVectors, odds \in EvOdds :
         call' = [fn |-> "calculate_ev_for_ah_bet",
                  args |-> <<p[1], p[2], p[3], p[4], p[5], odds>>,
                  result |-> calculate_ev_for_ah_bet(p[1], p[2], p[3], p[4], p[5], odds)]
    /\ UNCHANGED <<now, bets>>
    /\ UNCHANGED runVars


\* C21: for odds > 0 calculate_ev_for_ah_bet returns
\* p_win*(odds-1) + p_half_win*(odds-1)/2 + p_push*0 + p_half_loss*(-0.5)
\* + p_loss*(-1); for odds missing or odds <= 0 it returns NaN, not a number
C21_EvFormulaOrNaN ==
    call.fn = "calculate_ev_for_ah_bet" =>
        LET a == call.args
        IN  IF a[6].kind = "num" /\ a[6].val > 0
            THEN call.result =
                   Num(2 * a[1] * (a[6].val - 100) + a[2] * (a[6].val - 100)
                       - 100 * a[4] - 200 * a[5])
            ELSE call.result = NaN

\* a call with half the mass on a half win and half on a half loss, at
\* odds above even money
C21_Witness ==
    /\ call.fn = "calculate_ev_for_ah_bet"
    /\ call.args[2] = 50 /\ call.args[4] = 50
    /\ call.args[6] = Num(190)
    /\ call.result = Num(50 * 90 - 50 * 100)

-----------------------------------------------------------------------------
(* src/test_gbm_core.py: get_closest_ah_line                               *)
(*                                                                         *)
(* The predicted goal difference is in thousandths, the line returned in   *)
(* quarters.  Multiplying by 4 and dividing by 4 are exact in binary       *)
(* floating point, and every tie of round() is at an odd multiple of       *)
(* 0.125, which is a binary fraction, so integers give the code's result.  *)

\* n/d rounded towards minus infinity
RoundDown(n, d) == n \div d

\* round(n/d) of Python 3 for d > 0: the nearest integer, a tie to the even one
RoundHalfEven(n, d) ==
    LET q == n \div d
        r == n - q * d
    IN  IF 2 * r < d THEN q
        ELSE IF 2 * r > d THEN q + 1
        ELSE IF q % 2 = 0 THEN q ELSE q + 1

\* the greater of two numbers
Max(a, b) == IF a > b THEN a ELSE b

\* get_closest_ah_line(predicted_goal_diff)
get_closest_ah_line(predicted_goal_diff) ==
    IF IsNa(predicted_goal_diff) THEN NaN
    ELSE LET rounded == RoundHalfEven(predicted_goal_diff.val * 4, 1000)
         IN  Num(Max(-12, Min(12, rounded)))

\* predicted goal differences run from -MaxDiffMilli to MaxDiffMilli thousandths
MaxDiffMilli == 3300

\* a direct call of get_closest_ah_line
CallClosestLine ==
    /\ call.fn = "none"
    /\ \E x \in {None, NaN} \cup { Num(d) : d \in (-MaxDiffMilli)..MaxDiffMilli } :
         call' = [fn |-> "get_closest_ah_line", args |-> <<x>>,
                  result |-> get_closest_ah_line(x)]
    /\ UNCHANGED <<now, bets>>
    /\ UNCHANGED runVars

\* |a|
Abs(a) == IF a < 0 THEN -a ELSE a

\* C22: for a defined input get_closest_ah_line returns a multiple of 0.25
\* in [-3, 3]; for |x| <= 3 it is within 0.125 of x and an exact quarter is
\* returned unchanged; beyond the range it is the nearer bound; a missing
\* input gives NaN, not 0
C22_ClosestLine ==
    call.fn = "get_closest_ah_line" =>
        LET x == call.args[1]
            r == call.result
        IN  IF IsNa(x) THEN r = NaN
            ELSE /\ r.kind = "num"
                 /\ r.val \in (-12)..12
                 /\ Abs(x.val) <= 3000 => Abs(250 * r.val - x.val) <= 125
                 /\ (Abs(x.val) <= 3000 /\ x.val % 250 = 0) => 250 * r.val = x.val
                 /\ x.val > 3000 => r.val = 12
                 /\ x.val < -3000 => r.val = -12

\* the call of the example 0.38, which is rounded up to 0.5
C22_Witness ==
    /\ call.fn = "get_closest_ah_line"
    /\ call.args[1] = Num(380)
    /\ call.result = Num(2)


-----------------------------------------------------------------------------
(* src/test_gbm_core.py: biv_poisson_pmf                                   *)
(*                                                                         *)
(* Rates and phi are integers in units of 1e-7, so that lambda - 1e-7 is   *)
(* lambda - 1 and "v > 1e-9" is "v > 0".  The value returned is kept in    *)
(* exact arithmetic: exp(log_exp_term) times the sum of the terms          *)
(*   a^(x-k) * b^(y-k) * c^k / ((x-k)! * (y-k)! * k!),                     *)
(* each term a record of the exponent of every base and its denominator,   *)
(* the sum the bag of its terms; a term of -inf adds nothing.              *)

\* one unit of rate, 1e-7, in units of 1e-7
PmfEps == 1

\* max_k_sum=20
MaxKSum == 20

RECURSIVE Fact(_)
\* exp(lgamma(n + 1)) = n!
Fact(n) == IF n <= 0 THEN 1 ELSE n * Fact(n - 1)

\* the floor constant 1e-100
PmfFloor == [kind |-> "floor", log_exp_term |-> 0, sum |-> <<>>]

\* an exception leaving biv_poisson_pmf
PmfRaises == [kind |-> "raises", log_exp_term |-> 0, sum |-> <<>>]

\* PmfTerm with x! in place of (x-k)! in the denominator
PmfTermFullFirstFactorial(x, y, k, a, b, c) ==
    [exps |-> [v \in {a, b, c} |->
                 (IF v = a THEN x - k ELSE 0) + (IF v = b THEN y - k ELSE 0)
                 + (IF v = c THEN k ELSE 0)],
     den  |-> Fact(x) * Fact(y - k) * Fact(k)]

\* exp(current_log_sum_term) of lines 32-48 when it is finite
PmfTerm(x, y, k, a, b, c) ==
    [exps |-> [v \in {a, b, c} |->
                 (IF v = a THEN x - k ELSE 0) + (IF v = b THEN y - k ELSE 0)
                 + (IF v = c THEN k ELSE 0)],
     den  |-> Fact(x - k) * Fact(y - k) * Fact(k)]

\* lines 39-46: current_log_sum_term is -inf
PmfTermIsZero(a, b, c) ==
    \/ a < 0 \/ b < 0
    \/ ~(a > 0) \/ ~(b > 0)
    \/ ~(c > 0)

\* lines 22-62 on numbers: lambda1, lambda2, phi in units of 1e-7
PmfBody(x, y, lambda1, lambda2, phi) ==
    LET current_phi == Max(0, Min(phi, Min(lambda1 - PmfEps, lambda2 - PmfEps)))
        a == lambda1 - current_phi
        b == lambda2 - current_phi
        ks == 0..Min(Min(x, y), MaxKSum)
        terms == [k \in ks |-> PmfTerm(x, y, k, a, b, current_phi)]
    IN  IF lambda1 + lambda2 - current_phi < 0 THEN PmfFloor
        ELSE IF ks = {} THEN PmfFloor
        ELSE IF PmfTermIsZero(a, b, current_phi) THEN PmfFloor
        ELSE [kind |-> "prob",
              log_exp_term |-> -(lambda1 + lambda2 - current_phi),
              sum |-> [t \in { terms[k] : k \in ks } |->
                         Cardinality({ k \in ks : terms[k] = t })]]

\* biv_poisson_pmf without the test of lines 19-20: None reaches the
\* subtraction of line 22 and raises TypeError; a NaN rate or phi compares
\* false everywhere, which leaves current_phi or a term without a value
PmfUnguarded(x, y, lambda1, lambda2, phi) ==
    IF lambda1.kind = "none" \/ lambda2.kind = "none" \/ phi.kind = "none"
    THEN PmfRaises
    ELSE IF lambda1.kind = "nan" \/ lambda2.kind = "nan" \/ phi.kind = "nan"
    THEN PmfFloor
    ELSE PmfBody(x, y, lambda1.val, lambda2.val, phi.val)

\* biv_poisson_pmf(x, y, lambda1, lambda2, phi): x and y are integers,
\* lambda1, lambda2 and phi tagged values
biv_poisson_pmf(x, y, lambda1, lambda2, phi) ==
    IF IsNa(lambda1) \/ IsNa(lambda2) \/ IsNa(phi)
       \/ lambda1.val <= 0 \/ lambda2.val <= 0
    THEN PmfFloor
    ELSE PmfBody(x, y, lambda1.val, lambda2.val, phi.val)

\* goal counts of the calls run from 0 to MaxPmfGoals
MaxPmfGoals == 3

\* a rate of n tenths, in units of 1e-7
Tenths(n) == n * 1000000

\* the rates of the calls: missing, NaN, negative, zero, 0.5 and 1.5
PmfRates == {None, NaN, Num(Tenths(-10)), Num(0), Num(Tenths(5)), Num(Tenths(15))}

\* the values of phi: missing, NaN, negative, zero, 0.2, and 2.0, which is
\* clipped below the smaller rate
PmfPhis == {None, NaN, Num(Tenths(-1)), Num(0), Num(Tenths(2)), Num(Tenths(20))}

\* a direct call of biv_poisson_pmf
CallPmf ==
    /\ call.fn = "none"
    /\ \E x \in 0..MaxPmfGoals, y \in 0..MaxPmfGoals,
          lambda1 \in PmfRates, lambda2 \in PmfRates, phi \in PmfPhis :
         call' = [fn |-> "biv_poisson_pmf", args |-> <<x, y, lambda1, lambda2, phi>>,
                  result |-> biv_poisson_pmf(x, y, lambda1, lambda2, phi)]
    /\ UNCHANGED <<now, bets>>
    /\ UNCHANGED runVars

\* C23: whenever a rate is non-positive, missing or NaN, or phi is missing or
\* NaN, biv_poisson_pmf returns the floor constant 1e-100 and does not
\* raise, whatever the goal pair
C23_InvalidInputGivesFloor ==
    call.fn = "biv_poisson_pmf" =>
        LET lambda1 == call.args[3]
            lambda2 == call.args[4]
            phi     == call.args[5]
        IN  ( \/ lambda1.kind # "num" \/ lambda2.kind # "num" \/ phi.kind # "num"
              \/ lambda1.val <= 0 \/ lambda2.val <= 0 )
            => call.result.kind = "floor"

\* a call with a valid first rate and phi and a missing second rate, for a
\* pair of positive goal counts
C23_Witness ==
    /\ call.fn = "biv_poisson_pmf"
    /\ call.args[1] > 0 /\ call.args[2] > 0
    /\ call.args[3] = Num(Tenths(15)) /\ call.args[4] = None
    /\ call.args[5] = Num(Tenths(2))
    /\ call.result = PmfFloor


\* test_symmetry (lines 126-134) for one goal pair, rate and phi: the two
\* calls it compares
CallPmfSwapped ==
    /\ call.fn = "none"
    /\ \E x \in 0..MaxPmfGoals, y \in 0..MaxPmfGoals,
          lambda_val \in PmfRates, phi \in PmfPhis :
         call' = [fn |-> "test_symmetry", args |-> <<x, y, lambda_val, phi>>,
                  result |-> <<biv_poisson_pmf(x, y, lambda_val, lambda_val, phi),
                               biv_poisson_pmf(y, x, lambda_val, lambda_val, phi)>>]
    /\ UNCHANGED <<now, bets>>
    /\ UNCHANGED runVars

-----------------------------------------------------------------------------
(* settle_open_bets on wagers whose terms cannot be settled *)

\* Open wagers on the fixture "ab" v "cd" of league E1 whose terms are not
\* those of a bet: quoted odds 0, a handicap line that is NaN, a side that
\* is neither home nor away, and no handicap line at all
InvalidTermsCatalog ==
    { [dt_gmt8 |-> 1, league |-> Text(L_E1),
       home |-> Text(T_ab), away |-> Text(T_cd),
       line_betted_on_refined |-> Num(-1), line |-> None,
       odds_betted_on_refined |-> Num(0), odds |-> None,
       stake |-> Num(1),
       bet_type_refined_ah |-> Text(Home), side |-> NoText,
       status |-> "open", pl |-> None, settled_at |-> None],
      [dt_gmt8 |-> 1, league |-> Text(L_E1),
       home |-> Text(T_ab), away |-> Text(T_cd),
       line_betted_on_refined |-> NaN, line |-> None,
       odds_betted_on_refined |-> Num(190), odds |-> None,
       stake |-> Num(1),
       bet_type_refined_ah |-> Text(Home), side |-> NoText,
       status |-> "open", pl |-> None, settled_at |-> None],
      [dt_gmt8 |-> 1, league |-> Text(L_E1),
       home |-> Text(T_ab), away |-> Text(T_cd),
       line_betted_on_refined |-> Num(1), line |-> None,
       odds_betted_on_refined |-> Num(190), odds |-> None,
       stake |-> Num(1),
       bet_type_refined_ah |-> Text(<<"d", "r", "a", "w">>), side |-> NoText,
       status |-> "open", pl |-> None, settled_at |-> None],
      [dt_gmt8 |-> 1, league |-> Text(L_E1),
       home |-> Text(T_ab), away |-> Text(T_cd),
       line_betted_on_refined |-> None, line |-> None,
       odds_betted_on_refined |-> Num(210), odds |-> None,
       stake |-> Num(1),
       bet_type_refined_ah |-> Text(Away), side |-> NoText,
       status |-> "open", pl |-> None, settled_at |-> None] }

\* the table holds wagers with such terms only, all of them open
InitInvalidTerms ==
    /\ now = StartTime
    /\ bets \in [BetIds -> InvalidTermsCatalog]
    /\ pc = "idle"
    /\ hours_buffer = HoursBufferDefault
    /\ rows = <<>>
    /\ txn_now = StartTime
    /\ league_to_matches = <<>>
    /\ fetch_failed = {}
    /\ idx = 0
    /\ row_log = <<>>
    /\ txn = NoTxn
    /\ settled = 0
    /\ exit = "none"
    /\ call = NoCall

SpecInvalidTerms == InitInvalidTerms /\ [][Next]_vars

\* the quoted odds of wager b are non-positive, or its handicap line is
\* missing or NaN, or its side is neither home nor away
HasInvalidTerms(b) ==
    \/ odds_val(b).kind = "num" /\ odds_val(b).val <= 0
    \/ IsNa(line_val(b))
    \/ SideOf(b) = NoSide

\* C25: a wager whose quoted odds are non-positive, whose handicap line is
\* missing or NaN, or whose side is neither home nor away stays open: no
\* run marks it settled
C25_InvalidTermsStayOpen ==
    \A i \in BetIds : HasInvalidTerms(bets[i]) => bets[i].status # "settled"

\* direct calls of the functions of test_gbm_core.py
NextCore ==
    \/ CallEv
    \/ CallClosestLine
    \/ CallPmf
    \/ CallPmfSwapped

SpecCore == InitNoRun /\ [][NextCore]_vars

-----------------------------------------------------------------------------
(* src/test_parlay_wins.py: resolve_ah_bet_profit of the bridge test       *)

\* resolve_ah_bet_profit of test_parlay_wins.py (lines 117-130): goals are
\* integers, line is in quarters, odds in hundredths, side_betted a text;
\* the result is in 1/200 of a unit
bridge_resolve_ah_bet_profit(home_goals, away_goals, line, side_betted, odds, stake) ==
    LET won == IF Lower(side_betted) = Home
               THEN 4 * home_goals + line > 4 * away_goals
               ELSE 4 * away_goals - line > 4 * home_goals
    IN  IF won THEN 2 * (odds - 100) * stake ELSE -(200 * stake)

\* the odds above even money of the samples
OddsAboveOne == { o \in OddsSamples : o > 100 }

\* both functions called with the same score, line, side, odds and stake
CallBothResolve ==
    /\ call.fn = "none"
    /\ \E hg \in 0..MaxGoals, ag \in 0..MaxGoals, line \in (-MaxLineQ)..MaxLineQ,
          side \in {Home, Away}, odds \in OddsAboveOne, stake \in 1..MaxStake :
         call' = [fn |-> "both_resolve_ah_bet_profit",
                  args |-> <<hg, ag, line, side, odds, stake>>,
                  result |-> <<bridge_resolve_ah_bet_profit(hg, ag, line, side, odds, stake),
                               resolve_ah_bet_profit(Num(hg), Num(ag), Num(line), side,
                                                     Num(odds), stake)>>]
    /\ UNCHANGED <<now, bets>>
    /\ UNCHANGED runVars

\* C26: for every integer score, quarter line, side, odds > 1 and stake > 0
\* the function of the bridge test returns a positive profit exactly when
\* the function of settle_bets does, and a negative one exactly when it does
C26_BridgeAgreesWithSettlement ==
    call.fn = "both_resolve_ah_bet_profit" =>
        /\ (call.result[1] > 0) <=> (call.result[2] > 0)
        /\ (call.result[1] < 0) <=> (call.result[2] < 0)

\* the probability vector with all its mass on outcome o: 1 win, 2 half win,
\* 3 push, 4 half loss, 5 loss
SureOutcome(o) == [i \in 1..5 |-> IF i = o THEN 100 ELSE 0]

\* calculate_ev_for_ah_bet called with probability 1 on one outcome and
\* resolve_ah_bet_profit called with stake 1 at the same odds
CallEvAndResolve ==
    /\ call.fn = "none"
    /\ \E o \in 1..5, hg \in 0..MaxGoals, ag \in 0..MaxGoals,
          line \in (-MaxLineQ)..MaxLineQ, side \in {Home, Away}, odds \in OddsSamples :
         call' = [fn |-> "ev_and_resolve",
                  args |-> <<o, hg, ag, line, side, odds>>,
                  result |-> <<calculate_ev_for_ah_bet(SureOutcome(o)[1], SureOutcome(o)[2],
                                                       SureOutcome(o)[3], SureOutcome(o)[4],
                                                       SureOutcome(o)[5], Num(odds)),
                               resolve_ah_bet_profit(Num(hg), Num(ag), Num(line), side,
                                                     Num(odds), 1)>>]
    /\ UNCHANGED <<now, bets>>
    /\ UNCHANGED runVars

\* direct calls that compare the payout rules of the three files
NextRules ==
    \/ CallBothResolve
    \/ CallEvAndResolve

SpecRules == InitNoRun /\ [][NextRules]_vars

\* the outcome of a wager by the threshold rule of settlement: the margin of
\* the side betted plus the line, in quarters
OutcomeBucket(hg, ag, line, side) ==
    LET eff == (IF side = Home THEN 4 * (hg - ag) ELSE 4 * (ag - hg)) + line
    IN  IF eff > 1 THEN 1
        ELSE IF eff = 1 THEN 2
        ELSE IF eff = 0 THEN 3
        ELSE IF eff = -1 THEN 4
        ELSE 5

\* C28: for each of the five outcomes and every odds > 0, the expected value
\* with probability 1 on the outcome equals the settlement profit at stake
\* 1 of a wager whose margin falls in that outcome's bucket
C28_EvPayoutsAreSettlementPayouts ==
    call.fn = "ev_and_resolve" =>
        LET a == call.args
        IN  OutcomeBucket(a[2], a[3], a[4], a[5]) = a[1]
            => /\ call.result[1].kind = "num"
               /\ call.result[1].val = 100 * call.result[2]

\* a half win: the home side at -0.75 winning 1-0, with the expected value
\* of a sure half win, both (odds - 1) / 2
C28_Witness ==
    /\ call.fn = "ev_and_resolve"
    /\ call.args = <<2, 1, 0, -3, Home, 190>>
    /\ call.result = <<Num(100 * 90), 90>>

-----------------------------------------------------------------------------
(* The bridge from recommendations to settled bets: test_bridge_logic of
   test_parlay_wins.py.  A score cell is the empty text '' or an integer,
   as in the mock frames; a line is in quarters and odds are in hundredths. *)

\* bool(x) is False: the empty text, the number 0 and None
Falsy(x) ==
    \/ x.kind = "none"
    \/ x.kind = "text" /\ x.val = <<>>
    \/ x.kind = "num" /\ x.val = 0

\* str(x).strip() == ''
StrIsBlank(x) == x.kind = "text" /\ Strip(x.val) = <<>>

\* f"{datetime_gmt8}_{home_name}_{away_name}"
game_key(g) == <<g.datetime_gmt8, g.home_name, g.away_name>>

\* current_games_dict: the last row of today_df with each key
current_games_dict(today_df) ==
    [k \in { game_key(today_df[j]) : j \in 1..Len(today_df) } |->
        LET last == CHOOSE j \in 1..Len(today_df) :
                        /\ game_key(today_df[j]) = k
                        /\ \A h \in (j + 1)..Len(today_df) : game_key(today_df[h]) # k
        IN  today_df[last]]

\* yesterday_recs: the rows with status 'complete' and has_recommendation
yesterday_recs(yesterday_df) ==
    SelectSeq(yesterday_df,
              LAMBDA r : r.status = "complete" /\ r.has_recommendation = TRUE)

\* the scores of one recommendation after lines 160-170: those of
\* yesterday's row, replaced by those of today's row with the same key when
\* one of yesterday's is falsy or blank
BridgeScores(rec, games) ==
    IF  /\ \/ Falsy(rec.home_score) \/ Falsy(rec.away_score)
           \/ StrIsBlank(rec.home_score) \/ StrIsBlank(rec.away_score)
        /\ game_key(rec) \in DOMAIN games
    THEN <<games[game_key(rec)].home_score, games[game_key(rec)].away_score>>
    ELSE <<rec.home_score, rec.away_score>>

\* one pass of the loop body (lines 158-223): the records it appends, none
\* after a continue.  float() and int() of an integer score give the score.
BridgeSettle(rec, games) ==
    LET sc          == BridgeScores(rec, games)
        is_home_bet == Contains(Lower(rec.rec_text), Lower(rec.home_name))
        is_away_bet == Contains(Lower(rec.rec_text), Lower(rec.away_name))
        side        == IF is_home_bet THEN Home ELSE Away
        profit      == bridge_resolve_ah_bet_profit(sc[1].val, sc[2].val, rec.line,
                                                    side, rec.rec_odds, 1)
    IN  IF Falsy(sc[1]) \/ Falsy(sc[2]) THEN <<>>
        ELSE IF ~is_home_bet /\ ~is_away_bet THEN <<>>
        ELSE << [fixture_id |-> game_key(rec),
                 league |-> rec.league,
                 home |-> rec.home_name,
                 away |-> rec.away_name,
                 home_score |-> sc[1].val,
                 away_score |-> sc[2].val,
                 line_betted_on_refined |-> rec.line,
                 bet_type_refined_ah |-> IF is_home_bet THEN "bet_home_refined_ah"
                                         ELSE "bet_away_refined_ah",
                 odds_betted_on_refined |-> rec.rec_odds,
                 stake |-> 1,
                 pl |-> profit,
                 status |-> "settled",
                 dt_gmt8 |-> rec.datetime_gmt8,
                 won |-> profit > 0] >>

RECURSIVE BridgeLoop(_, _, _)
BridgeLoop(recs, games, settled_bets) ==
    IF recs = <<>> THEN settled_bets
    ELSE BridgeLoop(Tail(recs), games, settled_bets \o BridgeSettle(Head(recs), games))

\* test_bridge_logic with the two frames as parameters: the settled bets
test_bridge_logic(yesterday_df, today_df) ==
    BridgeLoop(yesterday_recs(yesterday_df), current_games_dict(today_df), <<>>)

\* the two fixtures of the frames; the away name of the second contains its
\* home name, as 'Tokyo Verdy' contains 'Tokyo'
BridgeFixtures ==
    << [datetime_gmt8 |-> 1, league |-> "England Premier League",
        home_name |-> <<"B", "e">>, away_name |-> <<"D", "o">>],
       [datetime_gmt8 |-> 2, league |-> "Japan J1 League",
        home_name |-> <<"S", "o">>, away_name |-> <<"S", "o", " ", "W">>] >>

\* a score cell of a frame
ScoreCells == {Text(<<>>)} \cup { Num(n) : n \in 0..MaxGoals }

\* the texts of a recommendation on fixture f: its home side, its away side,
\* and a text that names neither team
RecTexts(f) ==
    { BridgeFixtures[f].home_name \o <<" ", "-">>,
      BridgeFixtures[f].away_name \o <<" ", "+">>,
      <<"H", "o", "m", "e", " ", "-">> }

\* a row of yesterday's frame
YesterdayRow(f, status, has_rec, text, line, hs, as) ==
    [datetime_gmt8 |-> BridgeFixtures[f].datetime_gmt8,
     league |-> BridgeFixtures[f].league,
     home_name |-> BridgeFixtures[f].home_name,
     away_name |-> BridgeFixtures[f].away_name,
     status |-> status, has_recommendation |-> has_rec,
     rec_text |-> text, line |-> line, rec_odds |-> 190,
     home_score |-> hs, away_score |-> as]

\* a row of today's frame
TodayRow(f, hs, as) ==
    [datetime_gmt8 |-> BridgeFixtures[f].datetime_gmt8,
     league |-> BridgeFixtures[f].league,
     home_name |-> BridgeFixtures[f].home_name,
     away_name |-> BridgeFixtures[f].away_name,
     status |-> IF Falsy(hs) /\ hs.kind = "text" THEN "incomplete" ELSE "complete",
     has_recommendation |-> TRUE,
     home_score |-> hs, away_score |-> as]

\* yesterday's rows of the first fixture: every status, text and score cell
YesterdayRowsFirst ==
    { YesterdayRow(1, st[1], st[2], text, -6, hs, as) :
        st \in {<<"complete", TRUE>>, <<"incomplete", TRUE>>, <<"complete", FALSE>>},
        text \in RecTexts(1), hs \in ScoreCells, as \in ScoreCells }

\* yesterday's frames: one row of the first fixture, alone or followed by a
\* completed recommendation of the second fixture without scores
YesterdayFrames ==
    { <<r>> : r \in YesterdayRowsFirst }
    \cup { <<r, YesterdayRow(2, "complete", TRUE, BridgeFixtures[2].away_name \o <<" ", "+">>,
                             1, Text(<<>>), Text(<<>>))>> : r \in YesterdayRowsFirst }

\* today's frames: the first fixture absent or with any score cells, the
\* second absent, 0-3 or 1-2
TodayFrames ==
    { a \o b :
        a \in {<<>>} \cup { <<TodayRow(1, hs, as)>> : hs \in ScoreCells, as \in ScoreCells },
        b \in { <<>>, <<TodayRow(2, Num(0), Num(2))>>, <<TodayRow(2, Num(1), Num(2))>> } }

CallBridge ==
    /\ call.fn = "none"
    /\ \E yesterday_df \in YesterdayFrames, today_df \in TodayFrames :
         call' = [fn |-> "test_bridge_logic",
                  args |-> <<yesterday_df, today_df>>,
                  result |-> test_bridge_logic(yesterday_df, today_df)]
    /\ UNCHANGED <<now, bets>>
    /\ UNCHANGED runVars

SpecBridge == InitNoRun /\ [][CallBridge]_vars

\* a cell that holds a final score, 0 included
IsGoals(x) == x.kind = "num"

\* both final scores of the match of rec are in yesterday's row or in a row
\* of today's frame for the same match
BothScoresPresent(rec, today_df) ==
    \/ IsGoals(rec.home_score) /\ IsGoals(rec.away_score)
    \/ \E j \in 1..Len(today_df) :
         /\ game_key(today_df[j]) = game_key(rec)
         /\ IsGoals(today_df[j].home_score) /\ IsGoals(today_df[j].away_score)

\* the recommendation text names the home or the away team
NamesATeam(rec) ==
    \/ Contains(Lower(rec.rec_text), Lower(rec.home_name))
    \/ Contains(Lower(rec.rec_text), Lower(rec.away_name))

\* C27: every completed recommendation whose match has both final scores in
\* yesterday's or today's data, a score of 0 goals included, and whose text
\* names one of the two teams, yields exactly one settled bet record
C27_ScoredRecommendationSettledOnce ==
    call.fn = "test_bridge_logic" =>
        \A i \in 1..Len(call.args[1]) :
            LET rec == call.args[1][i]
            IN  /\ rec.status = "complete" /\ rec.has_recommendation = TRUE
                /\ BothScoresPresent(rec, call.args[2])
                /\ NamesATeam(rec)
                => Cardinality({ j \in 1..Len(call.result) :
                                   call.result[j].fixture_id = game_key(rec) }) = 1

=============================================================================
